---- MODULE Spec2Model ----
(***************************************************************************)
(* GWP 1.2, a high-resolution code profiler for C/C++ code.                *)
(*                                                                         *)
(* The model follows profile.h (the BEGIN_BLOCK / END_BLOCK / DUMP_PROFILE *)
(* macros) and profile.c (return_pid, new_block, counter_correction,       *)
(* begin_block, end_block, dump_profile).                                  *)
(*                                                                         *)
(* Units.  The C code keeps durations in double seconds, SECS(X) =         *)
(* X / frequency with frequency = 10^9.  The model keeps every duration as *)
(* the exact number of ticks X (the value times frequency); floating-point *)
(* rounding of the sums is outside the model.                              *)
(*                                                                         *)
(* Unsigned timestamps.  profile_t is unsigned long long and differences   *)
(* are converted to long long; for the small values of the model the       *)
(* result is the mathematical difference, possibly negative.               *)
(***************************************************************************)
EXTENDS Integers, Sequences, FiniteSets, TLC

(***************************************************************************)
(* Capacities.  The source sets THREAD_MAX = 16 and RECURSE_MAX =          *)
(* BLOCK_MAX = STACK_MAX = 100; the model scales them down.  The program   *)
(* has only a few call sites here, so RECURSE_MAX is one more than the     *)
(* other two: as in the source, the block and stack capacities are equal,  *)
(* one call site alone cannot fill them, and the call sites together can   *)
(* ask for more blocks than BLOCK_MAX.                                     *)
(***************************************************************************)
THREAD_MAX == 2
RECURSE_MAX == 4
BLOCK_MAX == 3
STACK_MAX == 3

PROFILE_INVALID == -1
NAME_MAX == 32
MANGLE_MAX == 256
NCALIBRATION == 2

(***************************************************************************)
(* Bounds of the exploration.                                              *)
(***************************************************************************)
MaxOps == 5        \* macro invocations of the thread of the sequential spec
MaxOpsMT == 2      \* macro invocations per thread of the concurrent spec
MaxClock == 2      \* total advance of the clock in the sequential spec
MaxTick == 1       \* largest advance of a clock between two reads
MaxOpsIdeal == 6   \* macro invocations under the idealized clock
MaxStep == 2       \* largest constant step of the idealized clock
NCALL == 3         \* samples of each pass of the calibration (source: 1000000)
MaxDelta == 3      \* largest sample of the calibration

(***************************************************************************)
(* OS thread ids (gettid) and the instrumented call sites of the program.  *)
(* A call site is one expansion of BEGIN_BLOCK(X); SiteName is its X.      *)
(***************************************************************************)
Tids == {11, 12, 13}
MainTid == CHOOSE t \in Tids : \A u \in Tids : t <= u
NoThread == PROFILE_INVALID

Sites == {"main", "main-thread", "f", "f2", "g", "u", "v", "h", "k"}
SitesOfSpec == {"main", "f"}
SitesOfSpecMT == {"main"}
SitesOfSpecBaseline == {"main", "main-thread"}
SitesOfSpecSameName == {"main", "f", "f2"}
SitesOfSpecMangle == {"main", "g", "u", "v", "h", "k"}

SiteName(s) ==
  CASE s = "main" -> <<"m","a","i","n">>
    [] s = "main-thread" -> <<"m","a","i","n","-","t","h","r","e","a","d">>
    [] s = "f"    -> <<"f">>
    \* a second call site that passes the name of the first
    [] s = "f2"   -> <<"f">>
    [] s = "g"    -> <<"A","x","+","b","-","a","n","d","-","a","c","t","i","v",
                       "a","t","i","o","n","-","o","t","h","e","r","-","l","a",
                       "y","e","r","s">>
    \* 34 characters, underscores and vowels
    [] s = "u"    -> <<"s","u","m","_","o","f","_","s","q","u","a","r","e","s","_","f","o","r","_","a","l","l","_","r","o","w","s","_","i","n","_","g","r","d">>
    \* 33 characters of which one is a vowel
    [] s = "v"    -> [i \in 1 .. (NAME_MAX + 1) |-> IF i = 5 THEN "a" ELSE "x"]
    \* NAME_MAX characters without vowel or underscore
    [] s = "h"    -> [i \in 1 .. NAME_MAX |-> "x"]
    \* MANGLE_MAX vowels
    [] s = "k"    -> [i \in 1 .. MANGLE_MAX |-> "a"]

Slots == 0 .. (THREAD_MAX - 1)
BlockIds == 0 .. (BLOCK_MAX - 1)
StackIdx == 0 .. (STACK_MAX - 1)
RecurseIdx == 0 .. (RECURSE_MAX - 1)

VARIABLES
  status,          \* "running", "fatal" (exit(EXIT_FAILURE)), "undefined"
  diag,            \* text printed on stderr by the fatal exit
  oob,             \* an array was indexed outside its bounds
  tids,            \* tids[THREAD_MAX]
  mutex,           \* owner of profile_mutex, NoThread when free
  counter_dummy,   \* counter_dummy
  PG,              \* profile_global[THREAD_MAX]
  PL,              \* profile_local[THREAD_MAX]
  PS,              \* profile_static[THREAD_MAX] of every call site
  report,          \* the file written by dump_profile, per slot
  clock,           \* CLOCK_THREAD_CPUTIME_ID of every thread
  th,              \* program counter and locals of every thread
  budget,          \* macro invocations a thread may still start
  hist,            \* macros issued by every thread, in order
  resolved,        \* slots return_pid has returned to every thread
  cal              \* the calibration of init_profile

vars == <<status, diag, oob, tids, mutex, counter_dummy, PG, PL, PS, report,
          clock, th, budget, hist, resolved, cal>>

----
(***************************************************************************)
(* Data                                                                    *)
(***************************************************************************)
NULL == <<"null">>
Dummy == <<"dummy">>
\* a faulty address that is one frame too high
FramePtrAbove(p, i) == <<"stack", p, i + 1>>

FramePtr(p, i) == <<"stack", p, i>>

ZeroFrame ==
  [stack_id |-> 0, stack_time_self |-> 0, stack_time_total |-> 0,
   stack_count_begin |-> 0, stack_count_end |-> 0]

ZeroChild == [child_active |-> FALSE, child_calls |-> 0, child_time_total |-> 0]
ZeroParent == [parent_active |-> FALSE, parent_calls |-> 0]

ZeroBlock ==
  [block_name |-> << >>, block_invocation |-> 0,
   block_invocation_pointer |-> "null",
   block_calls |-> 0, block_time_self_total |-> 0, block_time_total |-> 0,
   block_child_calls |-> 0, block_child_time_total |-> 0,
   block_parent |-> [i \in BlockIds |-> ZeroParent],
   block_child |-> [i \in BlockIds |-> ZeroChild],
   block_time_recursive_total |-> 0, block_calls_recursive_total |-> 0]

ZeroLocal ==
  [nstack |-> 0, stack |-> [i \in StackIdx |-> ZeroFrame],
   nblock |-> 0, block |-> [i \in BlockIds |-> ZeroBlock],
   counter_overhead_begin |-> 0, counter_overhead_end |-> 0,
   time_total |-> 0]

ZeroStatic == [block_id |-> [i \in RecurseIdx |-> 0], block_invocation |-> 0]

ZeroGlobal == [counter_stamp |-> 0, counter_pointer |-> NULL]

IdleThread ==
  [pc |-> "user", op |-> "none", site |-> "none", pid |-> PROFILE_INVALID,
   result |-> 0, unseen |-> FALSE,
   block_id |-> 0, counter_delta |-> 0, n |-> 0, counter_stamp |-> 0,
   mn |-> <<0, 1>>, correction |-> 0, ret |-> "none"]

NoReport == [written |-> FALSE]

----
(***************************************************************************)
(* mangle: shorten a block name to fewer than NAME_MAX characters.         *)
(***************************************************************************)
IsRemovable(c) == c \in {"a", "o", "u", "i", "e", "_"}

\* a faulty scan that starts at the left end
ScanFromLeft(m) ==
  LET hits == {i \in 1 .. Len(m) : IsRemovable(m[i])}
  IN  IF hits = {} THEN -1
      ELSE (CHOOSE i \in hits : \A j \in hits : i <= j) - 1

\* the inner scan "while (n >= 0)": the largest C index holding a vowel or an
\* underscore, -1 when there is none (the terminator at strlen(m) is neither)
ScanFromRight(m) ==
  LET hits == {i \in 1 .. Len(m) : IsRemovable(m[i])}
  IN  IF hits = {} THEN -1
      ELSE (CHOOSE i \in hits : \A j \in hits : j <= i) - 1

\* "while ((m[n] = m[n + 1]) != '\0') n++": delete the character at C index n
RemoveAt(m, n) == SubSeq(m, 1, n) \o SubSeq(m, n + 2, Len(m))

RECURSIVE MangleLoop(_)
MangleLoop(m) ==
  IF Len(m) < NAME_MAX THEN [bug |-> "", name |-> m]
  ELSE LET n == ScanFromRight(m)
       IN  IF n < 0 THEN [bug |-> "n < 0", name |-> m]
           ELSE MangleLoop(RemoveAt(m, n))

\* a faulty mangle whose removal loop tests its condition at the end, so
\* that a name that fits loses a character too
mangleDoWhile(source) ==
  IF Len(source) >= MANGLE_MAX
  THEN [bug |-> "strlen(source) >= MANGLE_MAX", name |-> source]
  ELSE LET n == ScanFromRight(source)
       IN  IF n < 0
           THEN [bug |-> IF Len(source) < NAME_MAX THEN "" ELSE "n < 0",
                 name |-> source]
           ELSE MangleLoop(RemoveAt(source, n))

mangle(source) ==
  IF Len(source) < NAME_MAX THEN [bug |-> "", name |-> source]
  ELSE IF Len(source) >= MANGLE_MAX
       THEN [bug |-> "strlen(source) >= MANGLE_MAX", name |-> source]
       ELSE LET r == MangleLoop(source)
            IN  IF r.bug # "" THEN r
                ELSE [bug |-> "", name |-> SubSeq(r.name, 1, NAME_MAX - 1)]

----
(***************************************************************************)
(* Clock.  counter(), COUNTER_VARIABLE and COUNTER_POINTER read the        *)
(* thread's CPU-time clock, which never runs backwards.  A read returns    *)
(* the previous reading plus the time elapsed since, at most MaxTick.      *)
(* clock[t].now is the last reading of thread t and clock[t].fuel the      *)
(* amount by which its clock may still advance: a clock out of fuel stands *)
(* still.  A clock with clock[t].ideal set is the idealized clock of the   *)
(* validation of the overhead correction: every read returns the previous  *)
(* reading plus the constant clock[t].every, and the code between two      *)
(* reads takes no time.                                                    *)
(***************************************************************************)
Now(t) == clock[t].now

\* the advances possible at a read, `used` being what earlier reads of the
\* same step have taken
Ticks(t, used) ==
  IF clock[t].ideal THEN {clock[t].every}
  ELSE {d \in 0 .. MaxTick : used + d <= clock[t].fuel}

\* a read the path taken does not make: its advance d is pinned to the least
\* one, so that the path is one step whatever the read could have returned
NoRead(t, used, d) == \A e \in Ticks(t, used) : d <= e

Advance(t, now) ==
  [clock EXCEPT ![t] =
     [@ EXCEPT !.now = now,
               !.fuel = IF clock[t].ideal THEN @ ELSE @ - (now - clock[t].now)]]

\* *(P) = now, for the targets counter_pointer takes
StoreDummy(ptr, now, dummy) == IF ptr = Dummy THEN now ELSE dummy

StoreLocal(ptr, now, pl) ==
  IF ptr[1] = "stack"
  THEN [pl EXCEPT ![ptr[2]].stack[ptr[3]].stack_count_begin = now]
  ELSE pl

----
(***************************************************************************)
(* The state after INIT_PROFILE has run in the main thread: every slot is  *)
(* cleared, and init_profile's own PID has bound the main thread to slot 0 *)
(* and pointed its counter_pointer at counter_dummy.                       *)
(***************************************************************************)
\* init_profile before its first sample; mn is its local, counter_mean,
\* counter_sigma, ncounter_largest and counter_largest are the globals, and
\* samples keeps the samples of the second pass
CalStart ==
  [pc |-> "first", n |-> 1, mn |-> <<0, 1>>, counter_mean |-> 0,
   counter_sigma |-> 0, ncounter_largest |-> 0, counter_largest |-> 0,
   samples |-> << >>]

\* init_profile has returned (here: every sample was 0)
CalDone == [CalStart EXCEPT !.pc = "done", !.n = NCALL]

InitCommon ==
  /\ status = "running"
  /\ diag = ""
  /\ oob = FALSE
  /\ tids = [i \in Slots |-> IF i = 0 THEN MainTid ELSE PROFILE_INVALID]
  /\ mutex = NoThread
  /\ counter_dummy = 0
  /\ PG = [i \in Slots |-> IF i = 0 THEN [ZeroGlobal EXCEPT !.counter_pointer = Dummy]
                           ELSE ZeroGlobal]
  /\ PL = [i \in Slots |-> ZeroLocal]
  /\ PS = [s \in Sites |-> [i \in Slots |-> ZeroStatic]]
  /\ report = [i \in Slots |-> NoReport]
  /\ th = [t \in Tids |-> IdleThread]
  /\ hist = [t \in Tids |-> << >>]
  /\ resolved = [t \in Tids |-> IF t = MainTid THEN {0} ELSE {}]

Init ==
  /\ InitCommon
  /\ cal = CalDone
  /\ budget = [t \in Tids |-> IF t = MainTid THEN MaxOps ELSE 0]
  /\ clock = [t \in Tids |-> [now |-> 0, fuel |-> MaxClock, ideal |-> FALSE,
                              every |-> 0]]

\* the CPU-time clocks of different threads are unrelated: in the concurrent
\* specification they stand still at different readings
InitMT ==
  /\ InitCommon
  /\ cal = CalDone
  /\ budget = [t \in Tids |-> MaxOpsMT]
  /\ clock = [t \in Tids |-> [now |-> Cardinality({u \in Tids : u > t}),
                              fuel |-> 0, ideal |-> FALSE, every |-> 0]]

\* the main thread alone, under an idealized clock of any constant step
InitIdeal ==
  /\ InitCommon
  /\ cal = CalDone
  /\ budget = [t \in Tids |-> IF t = MainTid THEN MaxOpsIdeal ELSE 0]
  /\ \E c \in 0 .. MaxStep :
       clock = [t \in Tids |-> [now |-> 0, fuel |-> 0, ideal |-> TRUE,
                                every |-> c]]

Running == status = "running"

\* a faulty PROFILE_BUG that prints the text and lets the process live
FatalWithoutExit(t, text) ==
  /\ status' = status
  /\ diag' = text
  /\ th' = [th EXCEPT ![t].pc = "exited"]

\* PROFILE_BUG(X) with X true: print the text of X and exit(EXIT_FAILURE)
Fatal(t, text) ==
  /\ status' = "fatal"
  /\ diag' = text
  /\ th' = [th EXCEPT ![t].pc = "exited"]

----
(***************************************************************************)
(* Macro entry.  BEGIN_BLOCK, END_BLOCK and DUMP_PROFILE all start with    *)
(* "int pid = PID", i.e. return_pid(syscall(SYS_gettid)).                  *)
(***************************************************************************)
Issue(t, op, site) ==
  /\ Running
  /\ th[t].pc = "user"
  /\ budget[t] > 0
  /\ budget' = [budget EXCEPT ![t] = @ - 1]
  /\ hist' = [hist EXCEPT ![t] = Append(@, <<op, site>>)]
  /\ th' = [th EXCEPT ![t] = [IdleThread EXCEPT !.pc = "rp_lock", !.op = op,
                                                !.site = site]]
  /\ UNCHANGED <<status, diag, oob, tids, mutex, counter_dummy, PG, PL, PS,
                 report, clock, resolved, cal>>

IssueBegin(t, sites) == \E s \in sites : Issue(t, "BEGIN_BLOCK", s)
IssueEnd(t) == Issue(t, "END_BLOCK", "none")
IssueDump(t) == Issue(t, "DUMP_PROFILE", "none")

----
(***************************************************************************)
(* return_pid                                                              *)
(***************************************************************************)
\* a faulty lock that every thread acquires at once
MutexFreeAlways(owner) == TRUE

\* pthread_mutex_lock succeeds when no thread owns the mutex
MutexFree(owner) == owner = NoThread

\* first loop: the slot holding tid, THREAD_MAX when there is none
FindTid(tid) ==
  IF \E i \in Slots : tids[i] = tid
  THEN CHOOSE i \in Slots : tids[i] = tid /\ \A j \in Slots : tids[j] = tid => i <= j
  ELSE THREAD_MAX

\* a faulty second loop that ends on the last slot when none is free
FindFreeOrLast ==
  IF \E i \in Slots : tids[i] = PROFILE_INVALID
  THEN CHOOSE i \in Slots : /\ tids[i] = PROFILE_INVALID
                            /\ \A j \in Slots : tids[j] = PROFILE_INVALID => i <= j
  ELSE THREAD_MAX - 1

\* second loop: the first free slot, THREAD_MAX when there is none
FindFree ==
  IF \E i \in Slots : tids[i] = PROFILE_INVALID
  THEN CHOOSE i \in Slots : /\ tids[i] = PROFILE_INVALID
                            /\ \A j \in Slots : tids[j] = PROFILE_INVALID => i <= j
  ELSE THREAD_MAX

return_pid_lock(t) ==
  /\ Running
  /\ th[t].pc = "rp_lock"
  /\ MutexFree(mutex)
  /\ mutex' = t
  /\ th' = [th EXCEPT ![t].pc = "rp_scan"]
  /\ UNCHANGED <<status, diag, oob, tids, counter_dummy, PG, PL, PS, report,
                 clock, budget, hist, resolved, cal>>

\* the two loops and PROFILE_BUG(result >= THREAD_MAX)
return_pid_scan(t) ==
  /\ Running
  /\ th[t].pc = "rp_scan"
  /\ LET found == FindTid(t)
         free == FindFree
     IN  IF found < THREAD_MAX
         THEN /\ th' = [th EXCEPT ![t].pc = "rp_store", ![t].result = found,
                                  ![t].unseen = FALSE]
              /\ UNCHANGED <<status, diag>>
         ELSE IF free >= THREAD_MAX
              THEN Fatal(t, "result >= THREAD_MAX")
              ELSE /\ th' = [th EXCEPT ![t].pc = "rp_store", ![t].result = free,
                                       ![t].unseen = TRUE]
                   /\ UNCHANGED <<status, diag>>
  /\ UNCHANGED <<oob, tids, mutex, counter_dummy, PG, PL, PS, report, clock,
                 budget, hist, resolved, cal>>

\* "tids[result] = tid" when the first loop did not find tid
return_pid_store(t) ==
  /\ Running
  /\ th[t].pc = "rp_store"
  /\ tids' = IF th[t].unseen THEN [tids EXCEPT ![th[t].result] = t] ELSE tids
  /\ th' = [th EXCEPT ![t].pc = "rp_unlock"]
  /\ UNCHANGED <<status, diag, oob, mutex, counter_dummy, PG, PL, PS, report,
                 clock, budget, hist, resolved, cal>>

AfterPid(op) ==
  CASE op = "BEGIN_BLOCK" -> "begin_entry"
    [] op = "END_BLOCK" -> "end_entry"
    [] op = "DUMP_PROFILE" -> "dump"

\* a faulty return_pid that returns without unlocking
UnlockMissing(owner, t) == owner

\* pthread_mutex_unlock by thread t
Unlock(owner, t) == IF owner = t THEN NoThread ELSE owner

return_pid_unlock(t) ==
  /\ Running
  /\ th[t].pc = "rp_unlock"
  /\ mutex' = Unlock(mutex, t)
  /\ th' = [th EXCEPT ![t].pc = AfterPid(th[t].op), ![t].pid = th[t].result,
                      ![t].result = 0, ![t].unseen = FALSE]
  /\ resolved' = [resolved EXCEPT ![t] = @ \cup {th[t].result}]
  /\ UNCHANGED <<status, diag, oob, tids, counter_dummy, PG, PL, PS, report,
                 clock, budget, hist, cal>>

----
(***************************************************************************)
(* counter_correction                                                      *)
(***************************************************************************)
\* a faulty estimator that leaves the sample out of the mean
update_mean_sigma_no_sample(n, x, mn) == mn

\* update_mean_sigma: *mn = mnm1 + (x - mnm1) / n, the mean kept as the exact
\* fraction <<numerator, denominator>>; *sn is computed and never used
update_mean_sigma(n, x, mn) == <<mn[1] * (n - 1) + x * mn[2], mn[2] * n>>

\* round(): to the nearest integer, halves away from zero
round(q) ==
  IF q[1] >= 0 THEN (2 * q[1] + q[2]) \div (2 * q[2])
  ELSE 0 - ((2 * (0 - q[1]) + q[2]) \div (2 * q[2]))

\* a faulty correction that returns the size of a negative result
ClampMagnitude(counter_delta, overhead) ==
  IF counter_delta - overhead < 0 THEN overhead - counter_delta
  ELSE counter_delta - overhead

\* a faulty correction without "if (result < 0) result = 0"
ClampMissing(counter_delta, overhead) == counter_delta - overhead

\* result = counter_delta - result; if (result < 0) result = 0
Clamp(counter_delta, overhead) ==
  IF counter_delta - overhead < 0 THEN 0 ELSE counter_delta - overhead

\* the thread-local state on entry of counter_correction(pid, counter_delta)
EnterCorrection(loc, counter_delta, ret) ==
  [loc EXCEPT !.pc = "cc_sample", !.counter_delta = counter_delta,
              !.n = 1, !.mn = <<0, 1>>, !.ret = ret]

\* COUNTER_VARIABLE(counter_stamp) COUNTER_POINTER(PG.counter_pointer)
counter_correction_sample(t) ==
  /\ Running
  /\ th[t].pc = "cc_sample"
  /\ \E d1 \in Ticks(t, 0) : \E d2 \in Ticks(t, d1) :
       LET p == th[t].pid
           t1 == Now(t) + d1
           t2 == t1 + d2
       IN  /\ clock' = Advance(t, t2)
           /\ counter_dummy' = StoreDummy(PG[p].counter_pointer, t2, counter_dummy)
           /\ PL' = StoreLocal(PG[p].counter_pointer, t2, PL)
           /\ th' = [th EXCEPT ![t].pc = "cc_update", ![t].counter_stamp = t1]
  /\ UNCHANGED <<status, diag, oob, tids, mutex, PG, PS, report, budget, hist,
                 resolved, cal>>

\* update_mean_sigma(n, counter_dummy - counter_stamp, &mn, &sn), and after
\* the last sample the rounding, subtraction and clamp
counter_correction_update(t) ==
  /\ Running
  /\ th[t].pc = "cc_update"
  /\ LET mn == update_mean_sigma(th[t].n, counter_dummy - th[t].counter_stamp,
                                 th[t].mn)
     IN  IF th[t].n < NCALIBRATION
         THEN th' = [th EXCEPT ![t].pc = "cc_sample", ![t].n = @ + 1,
                               ![t].mn = mn, ![t].counter_stamp = 0]
         ELSE th' = [th EXCEPT ![t].pc = th[t].ret, ![t].n = 0,
                               ![t].mn = <<0, 1>>, ![t].counter_stamp = 0,
                               ![t].counter_delta = 0,
                               ![t].correction =
                                  Clamp(th[t].counter_delta, round(mn))]
  /\ UNCHANGED <<status, diag, oob, tids, mutex, counter_dummy, PG, PL, PS,
                 report, clock, budget, hist, resolved, cal>>

----
(***************************************************************************)
(* new_block                                                               *)
(***************************************************************************)
init_block == [i \in RecurseIdx |-> PROFILE_INVALID]

clear_block(b) ==
  [b EXCEPT !.block_calls = 0, !.block_time_self_total = 0,
            !.block_time_total = 0,
            !.block_child = [i \in BlockIds |-> ZeroChild],
            !.block_parent = [i \in BlockIds |-> ZeroParent]]

\* the result: bug is the failed PROFILE_BUG ("" when none), id the new block
\* id, local the thread's profile_local afterwards
new_block(local, name, invocation, site) ==
  IF local.nblock >= BLOCK_MAX
  THEN [bug |-> "PL.nblock >= BLOCK_MAX", id |-> PROFILE_INVALID, local |-> local]
  ELSE LET id == local.nblock
           m == mangle(name)
       IN  IF m.bug # ""
           THEN [bug |-> m.bug, id |-> PROFILE_INVALID, local |-> local]
           ELSE [bug |-> "", id |-> id,
                 local |-> [local EXCEPT
                   !.block[id] = clear_block(
                      [@ EXCEPT !.block_name = m.name,
                                !.block_invocation = invocation,
                                !.block_invocation_pointer = site]),
                   !.nblock = @ + 1]]

----
(***************************************************************************)
(* BEGIN_BLOCK(X) after PID, up to the call of counter_correction in       *)
(* begin_block.                                                            *)
(*                                                                         *)
(* The macro indexes block_id[RECURSE_MAX] with the incremented            *)
(* block_invocation and checks no bound.  An index outside the array is    *)
(* undefined behaviour: the value read is any of OOBRead (no cached id, a  *)
(* block id, or the adjoining block_invocation field, which holds          *)
(* RECURSE_MAX at that moment), a store is lost, and when the macro        *)
(* returns the process is in the "undefined" status.                       *)
(***************************************************************************)
OOBRead == {PROFILE_INVALID, 0, RECURSE_MAX}

\* the block_invocation of the call site after "if (== 0) {init_block; = 1}"
\* and "PS.block_invocation++"
NextInvocation(ps) ==
  IF ps.block_invocation = 0 THEN 2 ELSE ps.block_invocation + 1

begin_entry(t) ==
  /\ Running
  /\ th[t].pc = "begin_entry"
  /\ \E d \in Ticks(t, 0) : \E d2 \in Ticks(t, d) : \E v \in OOBRead :
       LET p == th[t].pid
           s == th[t].site
           now == Now(t) + d
           ps0 == PS[s][p]
           ps1 == [block_id |-> IF ps0.block_invocation = 0 THEN init_block
                                ELSE ps0.block_id,
                   block_invocation |-> NextInvocation(ps0)]
           inv == ps1.block_invocation
           inrange == inv \in RecurseIdx
           cached == IF inrange THEN ps1.block_id[inv] ELSE v
       IN  \E nb \in {IF cached = PROFILE_INVALID
                       THEN new_block(PL[p], SiteName(s), inv, s)
                       ELSE [bug |-> "", id |-> cached, local |-> PL[p]]} :
       LET ps2 == IF inrange THEN [ps1 EXCEPT !.block_id[inv] = nb.id] ELSE ps1
           pl == nb.local
           top == pl.nstack - 1
       IN  /\ (inrange => v = PROFILE_INVALID)
           /\ PS' = [PS EXCEPT ![s][p] = IF nb.bug # "" THEN ps1 ELSE ps2]
           /\ oob' = (oob \/ ~inrange)
           /\ IF nb.bug # ""
              THEN /\ Fatal(t, nb.bug)
                   /\ PG' = [PG EXCEPT ![p].counter_stamp = now]
                   /\ clock' = Advance(t, now)
                   /\ NoRead(t, d, d2)
                   /\ UNCHANGED PL
              ELSE IF pl.nstack > 0
              THEN \* with_previous->stack_count_end = PG.counter_stamp
                   /\ NoRead(t, d, d2)
                   /\ PL' = [PL EXCEPT ![p] =
                        [pl EXCEPT !.stack[top].stack_count_end = now]]
                   /\ PG' = [PG EXCEPT ![p].counter_stamp = now,
                                       ![p].counter_pointer = Dummy]
                   /\ clock' = Advance(t, now)
                   /\ th' = [th EXCEPT ![t] =
                        EnterCorrection([@ EXCEPT !.block_id = nb.id],
                           now - pl.stack[top].stack_count_begin, "begin_rest")]
                   /\ UNCHANGED <<status, diag>>
              ELSE \* COUNTER_VARIABLE(PL.counter_overhead_begin)
                   /\ PL' = [PL EXCEPT ![p] =
                        [pl EXCEPT !.counter_overhead_begin = now + d2]]
                   /\ PG' = [PG EXCEPT ![p].counter_stamp = now]
                   /\ clock' = Advance(t, now + d2)
                   /\ th' = [th EXCEPT ![t].pc = "begin_rest",
                                       ![t].block_id = nb.id, ![t].ret = "none"]
                   /\ UNCHANGED <<status, diag>>
  /\ UNCHANGED <<tids, mutex, counter_dummy, report, budget, hist, resolved, cal>>

\* a faulty capacity test that is off by one
StackFullOffByOne(nstack) == nstack > STACK_MAX

\* PROFILE_BUG(PL.nstack >= STACK_MAX)
StackFull(nstack) == nstack >= STACK_MAX

\* a faulty push that writes the new frame over the top frame
PushFrameOverTop(local, block_id) ==
  [local EXCEPT !.stack[local.nstack - 1].stack_id = block_id,
                !.stack[local.nstack - 1].stack_time_self = 0,
                !.stack[local.nstack - 1].stack_time_total = 0,
                !.nstack = @ + 1]

\* the new frame of begin_block (lines 291-301) but for counter_pointer
PushFrame(local, block_id) ==
  [local EXCEPT !.stack[local.nstack].stack_id = block_id,
                !.stack[local.nstack].stack_time_self = 0,
                !.stack[local.nstack].stack_time_total = 0,
                !.nstack = @ + 1]

\* the rest of begin_block and the closing counter(PG.counter_pointer)
begin_rest(t) ==
  /\ Running
  /\ th[t].pc = "begin_rest"
  /\ \E d \in Ticks(t, 0) :
       LET p == th[t].pid
           now == Now(t) + d
           n == PL[p].nstack
           pl1 == IF th[t].ret = "begin_rest"
                  THEN [PL[p] EXCEPT !.stack[n - 1].stack_time_self =
                                        @ + th[t].correction]
                  ELSE PL[p]
       IN  IF StackFull(n)
           THEN /\ NoRead(t, 0, d)
                /\ Fatal(t, "PL.nstack >= STACK_MAX")
                /\ PL' = [PL EXCEPT ![p] = pl1]
                /\ UNCHANGED <<PG, clock>>
           ELSE LET ptr == FramePtr(p, n)
                IN  /\ PG' = [PG EXCEPT ![p].counter_pointer = ptr]
                    /\ PL' = StoreLocal(ptr, now,
                               [PL EXCEPT ![p] = PushFrame(pl1, th[t].block_id)])
                    /\ clock' = Advance(t, now)
                    /\ th' = [th EXCEPT ![t] = IdleThread]
                    /\ status' = IF oob THEN "undefined" ELSE status
                    /\ UNCHANGED diag
  /\ UNCHANGED <<oob, tids, mutex, counter_dummy, PS, report, budget, hist,
                 resolved, cal>>

----
(***************************************************************************)
(* END_BLOCK after PID: counter(&PG.counter_stamp) and end_block up to the *)
(* call of counter_correction.                                             *)
(***************************************************************************)
end_entry(t) ==
  /\ Running
  /\ th[t].pc = "end_entry"
  /\ \E d \in Ticks(t, 0) :
       LET p == th[t].pid
           now == Now(t) + d
           n == PL[p].nstack - 1
       IN  /\ PG' = [PG EXCEPT ![p].counter_stamp = now,
                               ![p].counter_pointer =
                                  IF n < 0 THEN @ ELSE Dummy]
           /\ clock' = Advance(t, now)
           /\ IF n < 0
              THEN /\ Fatal(t, "PL.nstack < 0")
                   /\ PL' = [PL EXCEPT ![p].nstack = n]
              ELSE /\ PL' = [PL EXCEPT ![p].nstack = n,
                                       ![p].stack[n].stack_count_end = now]
                   /\ th' = [th EXCEPT ![t] =
                        EnterCorrection(@,
                           now - PL[p].stack[n].stack_count_begin, "end_rest")]
                   /\ UNCHANGED <<status, diag>>
  /\ UNCHANGED <<oob, tids, mutex, counter_dummy, PS, report, budget, hist,
                 resolved, cal>>

\* a faulty end_block that assigns the self time to the frame's total
\* instead of adding it
CloseFrameSelfOnly(f, correction) ==
  [f EXCEPT !.stack_time_self = @ + correction,
            !.stack_time_total = f.stack_time_self + correction]

\* the frame's self and total time when it closes (end_block lines 317-320)
CloseFrame(f, correction) ==
  [f EXCEPT !.stack_time_self = @ + correction,
            !.stack_time_total = @ + (f.stack_time_self + correction)]

\* a faulty end_block that leaves out with_block->block_calls++
RecordCloseNoCall(b, f) ==
  [b EXCEPT !.block_time_self_total = @ + f.stack_time_self,
            !.block_time_total = @ + f.stack_time_total]

\* with_block->block_calls++ and the two cumulative times (lines 324-328)
RecordClose(b, f) ==
  [b EXCEPT !.block_calls = @ + 1,
            !.block_time_self_total = @ + f.stack_time_self,
            !.block_time_total = @ + f.stack_time_total]

\* a faulty end_block that does not add the child's total to its parent frame
RecordEdgeNoFold(local, cur, prev) ==
  LET c == local.stack[cur]
      q == local.stack[prev]
  IN  [local EXCEPT
        !.block[c.stack_id].block_parent[q.stack_id] =
            [parent_active |-> TRUE, parent_calls |-> @.parent_calls + 1],
        !.block[q.stack_id].block_child[c.stack_id] =
            [child_active |-> TRUE, child_calls |-> @.child_calls + 1,
             child_time_total |-> @.child_time_total + c.stack_time_total]]

\* a faulty end_block that does not mark the child entry active
RecordEdgeChildInactive(local, cur, prev) ==
  LET c == local.stack[cur]
      q == local.stack[prev]
  IN  [local EXCEPT
        !.stack[prev].stack_time_total = @ + c.stack_time_total,
        !.block[c.stack_id].block_parent[q.stack_id] =
            [parent_active |-> TRUE, parent_calls |-> @.parent_calls + 1],
        !.block[q.stack_id].block_child[c.stack_id] =
            [child_active |-> @.child_active, child_calls |-> @.child_calls + 1,
             child_time_total |-> @.child_time_total + c.stack_time_total]]

\* a faulty end_block that leaves out "update parent in child"
RecordEdgeNoParent(local, cur, prev) ==
  LET c == local.stack[cur]
      q == local.stack[prev]
  IN  [local EXCEPT
        !.stack[prev].stack_time_total = @ + c.stack_time_total,
        !.block[q.stack_id].block_child[c.stack_id] =
            [child_active |-> TRUE, child_calls |-> @.child_calls + 1,
             child_time_total |-> @.child_time_total + c.stack_time_total]]

\* the call-graph edges and the fold into the new top frame (lines 338-362)
RecordEdge(local, cur, prev) ==
  LET c == local.stack[cur]
      q == local.stack[prev]
  IN  [local EXCEPT
        !.stack[prev].stack_time_total = @ + c.stack_time_total,
        !.block[c.stack_id].block_parent[q.stack_id] =
            [parent_active |-> TRUE, parent_calls |-> @.parent_calls + 1],
        !.block[q.stack_id].block_child[c.stack_id] =
            [child_active |-> TRUE, child_calls |-> @.child_calls + 1,
             child_time_total |-> @.child_time_total + c.stack_time_total]]

\* a faulty end_block that decrements the recursion counter twice
DecrementTwice(invocation) == invocation - 2

\* (*with_block->block_invocation_pointer)--
Decrement(invocation) == invocation - 1

\* a faulty end_block that measures the window from the start of the
\* bottom frame's own code
WindowTimeFromFrame(local, now) == now - local.stack[0].stack_count_begin

\* counter_delta = PL.counter_overhead_end - PL.counter_overhead_begin, the
\* end being the clock read of COUNTER_VARIABLE(PL.counter_overhead_end)
WindowTime(local, now) == now - local.counter_overhead_begin

\* the rest of end_block and the closing counter(PG.counter_pointer)
end_rest(t) ==
  /\ Running
  /\ th[t].pc = "end_rest"
  /\ \E d1 \in Ticks(t, 0) : \E d2 \in Ticks(t, d1) :
       LET p == th[t].pid
           n == PL[p].nstack
           f == CloseFrame(PL[p].stack[n], th[t].correction)
           id == f.stack_id
           site == PL[p].block[id].block_invocation_pointer
           pl1 == [PL[p] EXCEPT !.stack[n] = f,
                                !.block[id] = RecordClose(@, f)]
           inv == Decrement(PS[site][p].block_invocation)
       IN  /\ PS' = [PS EXCEPT ![site][p].block_invocation = inv]
           /\ IF inv < 0
              THEN /\ NoRead(t, 0, d1) /\ NoRead(t, d1, d2)
                   /\ Fatal(t, "*with_block->block_invocation_pointer < 0")
                   /\ PL' = [PL EXCEPT ![p] = pl1]
                   /\ UNCHANGED <<PG, clock, counter_dummy>>
              ELSE IF n > 0
              THEN LET ptr == FramePtr(p, n - 1)
                       now == Now(t) + d1
                   IN  /\ NoRead(t, d1, d2)
                       /\ PG' = [PG EXCEPT ![p].counter_pointer = ptr]
                       /\ PL' = StoreLocal(ptr, now,
                                  [PL EXCEPT ![p] = RecordEdge(pl1, n, n - 1)])
                       /\ clock' = Advance(t, now)
                       /\ th' = [th EXCEPT ![t] = IdleThread]
                       /\ UNCHANGED <<status, diag, counter_dummy>>
              ELSE \* COUNTER_VARIABLE(PL.counter_overhead_end)
                   LET t1 == Now(t) + d1
                       t2 == t1 + d2
                   IN  /\ PG' = [PG EXCEPT ![p].counter_pointer = Dummy]
                       /\ PL' = [PL EXCEPT ![p] =
                            [pl1 EXCEPT !.counter_overhead_end = t1,
                                        !.time_total =
                                           @ + WindowTime(pl1, t1)]]
                       /\ counter_dummy' = t2
                       /\ clock' = Advance(t, t2)
                       /\ th' = [th EXCEPT ![t] = IdleThread]
                       /\ UNCHANGED <<status, diag>>
  /\ UNCHANGED <<oob, tids, mutex, report, budget, hist, resolved, cal>>

----
(***************************************************************************)
(* dump_profile.  The report file is kept as a record of what is printed;  *)
(* fopen is taken to succeed.  A percentage or quotient is kept as the     *)
(* pair <<dividend, divisor>> of the floating-point division.              *)
(*                                                                         *)
(* profile.c comes in two revisions.  BEGIN_BLOCK of profile.h stores      *)
(* block_invocation 2 for the outermost entry of a call site, and the      *)
(* older revision's dump_profile starts by decrementing block_invocation   *)
(* of every block ("off by one due to 0 initialization"); the rest of the  *)
(* function is the newer revision's.  FixInvocation is that decrement.     *)
(***************************************************************************)
RECURSIVE SumToFromOne(_, _)
\* a faulty sum whose loop starts at index 1
SumToFromOne(f, n) == IF n <= 1 THEN 0 ELSE SumToFromOne(f, n - 1) + f[n - 1]

RECURSIVE SumTo(_, _)
\* the sum of f[0] .. f[n - 1]
SumTo(f, n) == IF n <= 0 THEN 0 ELSE SumTo(f, n - 1) + f[n - 1]

\* a faulty dump_profile that leaves block_invocation as BEGIN_BLOCK stored it
FixInvocationMissing(b) == b

\* "block_invocation off by one due to 0 initialization"
FixInvocation(b) ==
  IF b.block_invocation > 0 THEN [b EXCEPT !.block_invocation = @ - 1] ELSE b

\* block_child_calls and block_child_time_total of one block
ChildTotals(b) ==
  [b EXCEPT
    !.block_child_calls =
       SumTo([j \in BlockIds |-> IF b.block_child[j].child_active
                                 THEN b.block_child[j].child_calls ELSE 0],
             BLOCK_MAX),
    !.block_child_time_total =
       SumTo([j \in BlockIds |-> IF b.block_child[j].child_active
                                 THEN b.block_child[j].child_time_total ELSE 0],
             BLOCK_MAX)]

\* block_time_recursive_total and block_calls_recursive_total of block i
Rollup(blocks, nblock, i) ==
  LET same(j) == /\ j < nblock
                 /\ blocks[j].block_invocation # 1
                 /\ blocks[i].block_name = blocks[j].block_name
  IN  IF blocks[i].block_invocation = 1
      THEN [blocks[i] EXCEPT
             !.block_time_recursive_total =
                blocks[i].block_time_self_total +
                SumTo([j \in BlockIds |-> IF same(j)
                         THEN blocks[j].block_time_self_total ELSE 0], BLOCK_MAX),
             !.block_calls_recursive_total =
                blocks[i].block_calls +
                SumTo([j \in BlockIds |-> IF same(j)
                         THEN blocks[j].block_calls ELSE 0], BLOCK_MAX)]
      ELSE [blocks[i] EXCEPT !.block_time_recursive_total = 0,
                             !.block_calls_recursive_total = 0]

\* "sort by straight insertion": the inner loop finds the position of the
\* largest key among sort[i .. n - 1], the outer loop swaps it into place
RECURSIVE SortInner(_, _, _, _, _)
SortInner(sort, key, k, j, n) ==
  IF j >= n THEN k
  ELSE SortInner(sort, key, IF key[sort[j]] > key[sort[k]] THEN j ELSE k, j + 1, n)

RECURSIVE SortOuter(_, _, _, _)
SortOuter(sort, key, i, n) ==
  IF i >= n - 1 THEN sort
  ELSE LET k == SortInner(sort, key, i, i + 1, n)
       IN  SortOuter([sort EXCEPT ![i] = sort[k], ![k] = sort[i]], key, i + 1, n)

SortBlocks(key, n) == SortOuter([i \in 0 .. (n - 1) |-> i], key, 0, n)

\* the last block of the given name, PROFILE_INVALID when there is none
FindNamed(blocks, nblock, name) ==
  LET hits == {i \in 0 .. (nblock - 1) : blocks[i].block_name = name}
  IN  IF hits = {} THEN PROFILE_INVALID
      ELSE CHOOSE i \in hits : \A j \in hits : j <= i

\* a faulty list of the open frames that starts at the top of the stack
UnterminatedTopFirst(local, blocks) ==
  [i \in 1 .. (IF local.nstack > 0 THEN local.nstack ELSE 0) |->
     <<blocks[local.stack[local.nstack - i].stack_id].block_name,
       blocks[local.stack[local.nstack - i].stack_id].block_invocation>>]

\* "The following blocks are not properly terminated by an END_BLOCK!": the
\* name and invocation of the block of every open frame, istack = 0 first
UnterminatedList(local, blocks) ==
  [i \in 1 .. (IF local.nstack > 0 THEN local.nstack ELSE 0) |->
     <<blocks[local.stack[i - 1].stack_id].block_name,
       blocks[local.stack[i - 1].stack_id].block_invocation>>]

\* a faulty choice in which main takes precedence
BaselineMainFirst(main, main_thread) ==
  IF main # PROFILE_INVALID THEN main ELSE main_thread

\* "main-thread takes precedence": with_main after line 562, PROFILE_INVALID
\* for NULL
Baseline(main, main_thread) ==
  IF main_thread # PROFILE_INVALID THEN main_thread ELSE main

\* a faulty macro that leaves out the factor 100
PERCFraction(x, time_self_total) == <<x, time_self_total>>

\* PERC(X) = X / time_self_total * 100
PERC(x, time_self_total) == <<x * 100, time_self_total>>

\* a faulty choice of the file name that leaves out the suffix
FileNameShared(pid) == <<"profile.txt">>

FileName(pid) ==
  IF pid = 0 THEN <<"profile.txt">> ELSE <<"profile-", pid - 1, ".txt">>

dump_profile(t) ==
  /\ Running
  /\ th[t].pc = "dump"
  /\ \E verbose \in {0, 1} :
       LET p == th[t].pid
           nblock == PL[p].nblock
           nstack == PL[p].nstack
       IN
       \E b2 \in {[i \in BlockIds |->
                    IF i < nblock THEN ChildTotals(FixInvocation(PL[p].block[i]))
                    ELSE FixInvocation(PL[p].block[i])]} :
       \E b3 \in {[i \in BlockIds |-> IF i < nblock THEN Rollup(b2, nblock, i)
                                       ELSE b2[i]]} :
       \E time_self_total \in
            {SumTo([i \in BlockIds |-> IF i < nblock
                      THEN b2[i].block_time_self_total ELSE 0], BLOCK_MAX)} :
       \E sort1 \in {SortBlocks([i \in BlockIds |-> b2[i].block_time_total],
                                nblock)} :
       \E sort2 \in {SortBlocks([i \in BlockIds |-> b2[i].block_time_self_total],
                                nblock)} :
       \E sort3 \in {SortBlocks([i \in BlockIds |->
                                  b3[i].block_time_recursive_total], nblock)} :
       LET with_main == Baseline(FindNamed(b2, nblock, SiteName("main")),
                                 FindNamed(b2, nblock, SiteName("main-thread")))
           header ==
             [written |-> TRUE, file |-> FileName(p), complete |-> FALSE,
              nblock |-> nblock,
              unterminated |-> UnterminatedList(PL[p], b2)]
           row1(i) == [id |-> i, name |-> b3[i].block_name,
                       invocation |-> b3[i].block_invocation,
                       perc |-> PERC(b3[i].block_time_total, time_self_total),
                       time |-> b3[i].block_time_total,
                       calls |-> b3[i].block_calls]
           row2(i) == [id |-> i, name |-> b3[i].block_name,
                       invocation |-> b3[i].block_invocation,
                       perc |-> PERC(b3[i].block_time_self_total, time_self_total),
                       time |-> b3[i].block_time_self_total,
                       calls |-> b3[i].block_calls]
           row3(i) == [id |-> i, name |-> b3[i].block_name,
                       perc |-> PERC(b3[i].block_time_recursive_total,
                                     time_self_total),
                       percmain |-> <<b3[i].block_time_recursive_total * 100,
                                      b3[with_main].block_time_total>>,
                       time |-> b3[i].block_time_recursive_total,
                       calls |-> b3[i].block_calls_recursive_total,
                       percall |-> <<b3[i].block_time_recursive_total,
                                     b3[i].block_calls_recursive_total>>]
           summary(i) ==
             [id |-> i, name |-> b3[i].block_name,
              invocation |-> b3[i].block_invocation,
              time |-> b3[i].block_time_total, calls |-> b3[i].block_calls,
              perc |-> PERC(b3[i].block_time_total, time_self_total),
              self |-> b3[i].block_time_self_total,
              percself |-> PERC(b3[i].block_time_self_total, time_self_total),
              children |-> b3[i].block_child_time_total,
              percchildren |-> PERC(b3[i].block_child_time_total, time_self_total),
              child |-> {[id |-> j, time |-> b3[i].block_child[j].child_time_total,
                          calls |-> b3[i].block_child[j].child_calls,
                          name |-> b3[j].block_name,
                          invocation |-> b3[j].block_invocation] :
                         j \in {j \in BlockIds : b3[i].block_child[j].child_active}},
              parent |-> {[id |-> j, calls |-> b3[i].block_parent[j].parent_calls,
                           name |-> b3[j].block_name,
                           invocation |-> b3[j].block_invocation] :
                          j \in {j \in BlockIds : b3[i].block_parent[j].parent_active}}]
           Seq0(f, n) == [i \in 1 .. n |-> f[i - 1]]
           order3 == Seq0(sort3, nblock)
       IN  IF with_main = PROFILE_INVALID
           THEN /\ verbose = 0
                /\ Fatal(t, "block main or main-thread not found")
                /\ PL' = [PL EXCEPT ![p].block = b2]
                /\ report' = [report EXCEPT ![p] = header]
           ELSE /\ PL' = [PL EXCEPT ![p].block = b3]
                /\ report' = [report EXCEPT ![p] =
                     [written |-> TRUE, file |-> FileName(p), complete |-> TRUE,
                      nblock |-> nblock, unterminated |-> header.unterminated,
                      time_total |-> PL[p].time_total,
                      time_self_total |-> time_self_total,
                      overhead |-> PL[p].time_total - time_self_total,
                      baseline |-> with_main,
                      by_total |-> [i \in 1 .. nblock |-> row1(sort1[i - 1])],
                      by_self |-> [i \in 1 .. nblock |-> row2(sort2[i - 1])],
                      by_recursive |->
                        [i \in 1 .. Len(SelectSeq(order3,
                                      LAMBDA j : b3[j].block_invocation = 1)) |->
                           row3(SelectSeq(order3,
                                  LAMBDA j : b3[j].block_invocation = 1)[i])],
                      verbose |-> verbose,
                      summary |-> [i \in 1 .. (IF verbose = 0 THEN 0 ELSE nblock) |->
                                     summary(sort3[i - 1])]]]
                /\ th' = [th EXCEPT ![t] = IdleThread]
                /\ UNCHANGED <<status, diag>>
  /\ UNCHANGED <<oob, tids, mutex, counter_dummy, PG, PS, clock, budget, hist,
                 resolved, cal>>

----
(***************************************************************************)
(* init_profile: the calibration of the intrinsic overhead.  Every sample  *)
(* is the difference of two consecutive clock reads of the main thread,    *)
(* the second of them stored in counter_dummy.                             *)
(***************************************************************************)
\* the threshold of the second pass
Threshold(c) == c.counter_mean + 3 * c.counter_sigma

\* one iteration of the first loop; the last one is followed by
\* counter_mean = round(mn), counter_sigma = round(mn / 3.0) and the reset of
\* ncounter_largest and counter_largest
init_profile_first_pass ==
  /\ Running
  /\ cal.pc = "first"
  /\ \E delta \in 0 .. MaxDelta :
       \E mn \in {update_mean_sigma(cal.n, delta, cal.mn)} :
         /\ clock' = [clock EXCEPT ![MainTid].now = @ + delta]
         /\ counter_dummy' = Now(MainTid) + delta
         /\ cal' = IF cal.n < NCALL
                   THEN [cal EXCEPT !.n = @ + 1, !.mn = mn]
                   ELSE [cal EXCEPT !.pc = "second", !.n = 1, !.mn = <<0, 1>>,
                                    !.counter_mean = round(mn),
                                    !.counter_sigma = round(<<mn[1], mn[2] * 3>>),
                                    !.ncounter_largest = 0,
                                    !.counter_largest = 0]
  /\ UNCHANGED <<status, diag, oob, tids, mutex, PG, PL, PS, report, th, budget,
                 hist, resolved>>

\* one iteration of the second loop
init_profile_second_pass ==
  /\ Running
  /\ cal.pc = "second"
  /\ \E delta \in 0 .. MaxDelta :
       /\ clock' = [clock EXCEPT ![MainTid].now = @ + delta]
       /\ counter_dummy' = Now(MainTid) + delta
       /\ cal' = [cal EXCEPT
                   !.pc = IF cal.n < NCALL THEN "second" ELSE "done",
                   !.n = IF cal.n < NCALL THEN @ + 1 ELSE @,
                   !.ncounter_largest =
                      IF delta > Threshold(cal) THEN @ + 1 ELSE @,
                   !.counter_largest =
                      IF delta > Threshold(cal) THEN delta ELSE @,
                   !.samples = Append(@, delta)]
  /\ UNCHANGED <<status, diag, oob, tids, mutex, PG, PL, PS, report, th, budget,
                 hist, resolved>>

----
(***************************************************************************)
(* Specifications.  Spec is the main thread alone; SpecMT is every thread  *)
(* of the process running the macros concurrently.                         *)
(***************************************************************************)
Step(t, sites) ==
  \/ IssueBegin(t, sites)
  \/ IssueEnd(t)
  \/ IssueDump(t)
  \/ return_pid_lock(t)
  \/ return_pid_scan(t)
  \/ return_pid_store(t)
  \/ return_pid_unlock(t)
  \/ begin_entry(t)
  \/ counter_correction_sample(t)
  \/ counter_correction_update(t)
  \/ begin_rest(t)
  \/ end_entry(t)
  \/ end_rest(t)
  \/ dump_profile(t)

Next == Step(MainTid, SitesOfSpec)

Spec == Init /\ [][Next]_vars

NextMT == \E t \in Tids : Step(t, SitesOfSpecMT)

SpecMT == InitMT /\ [][NextMT]_vars

\* the steps of return_pid after the lock has been acquired
return_pid_critical(t) ==
  return_pid_scan(t) \/ return_pid_store(t) \/ return_pid_unlock(t)

\* every thread under a fair scheduler and a mutex that serves a thread
\* that keeps asking for it: a thread inside return_pid keeps running, and
\* pthread_mutex_lock returns if the mutex is free again and again
SpecMTFair ==
  /\ SpecMT
  /\ \A t \in Tids : WF_vars(return_pid_critical(t))
  /\ \A t \in Tids : SF_vars(return_pid_lock(t))

SpecIdeal == InitIdeal /\ [][Next]_vars

\* the main thread alone with call sites named main and main-thread
NextBaseline == Step(MainTid, SitesOfSpecBaseline)

SpecBaseline == InitIdeal /\ [][NextBaseline]_vars

\* the main thread alone with two call sites of one name
NextSameName == Step(MainTid, SitesOfSpecSameName)

SpecSameName == InitIdeal /\ [][NextSameName]_vars

\* the main thread alone with call sites whose names reach NAME_MAX
NextMangle == Step(MainTid, SitesOfSpecMangle)

SpecMangle == InitIdeal /\ [][NextMangle]_vars

\* init_profile from its first sample on; no macro is executed
InitCalibration ==
  /\ InitCommon
  /\ cal = CalStart
  /\ budget = [t \in Tids |-> 0]
  /\ clock = [t \in Tids |-> [now |-> 0, fuel |-> 0, ideal |-> FALSE,
                              every |-> 0]]

NextCalibration == init_profile_first_pass \/ init_profile_second_pass

SpecCalibration == InitCalibration /\ [][NextCalibration]_vars

----
(***************************************************************************)
(* Properties.  The macros a thread has issued are kept in hist, which     *)
(* lets a property name the run it is about.                               *)
(***************************************************************************)
Enters(t) ==
  Cardinality({i \in DOMAIN hist[t] : hist[t][i][1] = "BEGIN_BLOCK"})

Exits(t) ==
  Cardinality({i \in DOMAIN hist[t] : hist[t][i][1] = "END_BLOCK"})

\* the slot return_pid gave thread t
SlotOf(t) == CHOOSE p \in resolved[t] : TRUE

\* the macro thread t issued last has returned
Returned(t) == th[t].pc = "user"

\* the block ids of the open frames of slot p, bottom first
OpenFrames(p) ==
  [i \in 1 .. (IF PL[p].nstack > 0 THEN PL[p].nstack ELSE 0) |->
     PL[p].stack[i - 1].stack_id]

\* C1: in every reachable state, every registered block of every thread has
\* cumulative total time >= cumulative self time.
C1_TotalAtLeastSelf ==
  \A p \in Slots : \A i \in BlockIds :
    i < PL[p].nblock =>
      PL[p].block[i].block_time_total >= PL[p].block[i].block_time_self_total

\* a block that was closed with time of its own and time of a child
C1_Witness ==
  \E p \in Slots : \E i \in BlockIds :
    /\ i < PL[p].nblock
    /\ PL[p].block[i].block_calls > 0
    /\ PL[p].block[i].block_time_self_total > 0
    /\ PL[p].block[i].block_time_total > PL[p].block[i].block_time_self_total

\* the run of C2: thread t ends its history with BEGIN_BLOCK(P),
\* BEGIN_BLOCK(C), END_BLOCK, END_BLOCK, has entered neither call site
\* before, and the last END_BLOCK has returned
NestedOnce(t, P, C) ==
  LET h == hist[t]
      n == Len(h)
  IN  /\ n >= 4
      /\ h[n - 3] = <<"BEGIN_BLOCK", P>>
      /\ h[n - 2] = <<"BEGIN_BLOCK", C>>
      /\ h[n - 1] = <<"END_BLOCK", "none">>
      /\ h[n] = <<"END_BLOCK", "none">>
      /\ \A i \in 1 .. (n - 4) : h[i][2] \notin {P, C}
      /\ Returned(t)

\* the blocks of the parent and of the child of that run
ParentBlock(t, P) == PS[P][SlotOf(t)].block_id[2]
ChildBlock(t, P, C) == PS[C][SlotOf(t)].block_id[IF C = P THEN 3 ELSE 2]

\* C2: a parent block entered once that enters and exits exactly one child
\* block and is exited has total time = its self time + the child's total
\* time, and the child's parent entry for that parent counts 1 call.
C2_NestingCorrect ==
  \A t \in Tids : \A P \in Sites : \A C \in Sites :
    NestedOnce(t, P, C) =>
      LET b == PL[SlotOf(t)].block
          pb == ParentBlock(t, P)
          cb == ChildBlock(t, P, C)
      IN  /\ b[pb].block_calls = 1
          /\ b[cb].block_calls = 1
          /\ b[pb].block_time_total =
               b[pb].block_time_self_total + b[cb].block_time_total
          /\ b[cb].block_parent[pb] = [parent_active |-> TRUE, parent_calls |-> 1]

\* such a run in which both the parent and the child took time
C2_Witness ==
  \E t \in Tids : \E P \in Sites : \E C \in Sites :
    /\ NestedOnce(t, P, C)
    /\ PL[SlotOf(t)].block[ParentBlock(t, P)].block_time_self_total > 0
    /\ PL[SlotOf(t)].block[ChildBlock(t, P, C)].block_time_total > 0

\* the run of C3: k BEGIN_BLOCKs of call site s, k END_BLOCKs, DUMP_PROFILE,
\* and dump_profile has run
RecursedAndDumped(t, s, k) ==
  /\ Len(hist[t]) = 2 * k + 1
  /\ \A i \in 1 .. k : hist[t][i] = <<"BEGIN_BLOCK", s>>
  /\ \A i \in (k + 1) .. (2 * k) : hist[t][i] = <<"END_BLOCK", "none">>
  /\ hist[t][2 * k + 1] = <<"DUMP_PROFILE", "none">>
  /\ report[SlotOf(t)].written

C4_LIFO ==
  [][\A p \in Slots :
       LET n == PL[p].nstack
           m == PL'[p].nstack
       IN  /\ m >= n - 1
           /\ m <= n + 1
           /\ \A i \in StackIdx :
                (i < n /\ i < m) =>
                   PL'[p].stack[i].stack_id = PL[p].stack[i].stack_id
           /\ \A t \in Tids :
                (th[t].pc = "end_entry" /\ th'[t].pc # "end_entry"
                   /\ th[t].pid = p) => m = n - 1]_vars

\* an END_BLOCK has removed the top frame and a frame of another block stays
C4_Witness ==
  \E t \in Tids :
    /\ th[t].pc = "end_rest"
    /\ LET p == th[t].pid
       IN  /\ PL[p].nstack >= 1
           /\ PL[p].stack[PL[p].nstack].stack_id #
                PL[p].stack[PL[p].nstack - 1].stack_id

\* C5: when a thread has issued one END_BLOCK more than BEGIN_BLOCKs, the
\* step of that END_BLOCK into end_block ends the process in the fatal
\* status with the diagnostic of the underflow, and changes no block of any
\* thread.
C5_UnderflowFatal ==
  [][\A t \in Tids :
       (/\ th[t].pc = "end_entry"
        /\ th'[t].pc # "end_entry"
        /\ Exits(t) = Enters(t) + 1)
       => /\ status' = "fatal"
          /\ diag' = "PL.nstack < 0"
          /\ \A p \in Slots : /\ PL'[p].block = PL[p].block
                              /\ PL'[p].nblock = PL[p].nblock]_vars

\* the process ended by an END_BLOCK too many, after a block was recorded
C5_Witness ==
  \E t \in Tids :
    /\ Exits(t) = Enters(t) + 1
    /\ Enters(t) >= 1
    /\ th[t].pc = "exited"
    /\ status = "fatal"
    /\ diag = "PL.nstack < 0"
    /\ PL[SlotOf(t)].nstack = -1
    /\ PL[SlotOf(t)].block[0].block_calls = 1

\* C6: no thread has more than STACK_MAX open frames, and a BEGIN_BLOCK
\* issued with STACK_MAX frames open never returns: when it ends, the
\* process is in the fatal status and the stack holds the same STACK_MAX
\* frames.
C6_StackBounded ==
  /\ \A p \in Slots : PL[p].nstack <= STACK_MAX
  /\ \A t \in Tids :
       (Enters(t) - Exits(t) > STACK_MAX /\ th[t].pc \in {"user", "exited"})
       => /\ th[t].pc = "exited"
          /\ status = "fatal"
          /\ PL[SlotOf(t)].nstack = STACK_MAX

\* begin_block has refused a frame on a full stack
C6_Witness ==
  \E t \in Tids :
    /\ Enters(t) - Exits(t) = STACK_MAX + 1
    /\ th[t].pc = "exited"
    /\ status = "fatal"
    /\ diag = "PL.nstack >= STACK_MAX"
    /\ PL[SlotOf(t)].nstack = STACK_MAX

\* C7: the block_id cache of a call site is never indexed outside
\* 0 .. RECURSE_MAX - 1, and whenever a recursion counter has reached
\* RECURSE_MAX the process is in the fatal status.
C7_RecursionBoundFatal ==
  /\ ~oob
  /\ \A s \in Sites : \A p \in Slots :
       PS[s][p].block_invocation >= RECURSE_MAX => status = "fatal"

\* C8: the recursion counter of every call site is never negative, in any
\* slot.
C8_CounterNeverNegative ==
  \A s \in Sites : \A p \in Slots : PS[s][p].block_invocation >= 0

\* a call site left by END_BLOCK as often as it was entered
C8_Witness ==
  \E t \in Tids : \E s \in Sites :
    /\ Enters(t) >= 2
    /\ Exits(t) = Enters(t)
    /\ Returned(t)
    /\ \A i \in DOMAIN hist[t] : hist[t][i][2] \in {s, "none"}
    /\ PS[s][SlotOf(t)].block_invocation = 1

\* C9: no thread has more than BLOCK_MAX blocks, and every block id in an
\* open frame, in the cache of a call site, or handed to begin_block is one
\* of 0 .. BLOCK_MAX - 1 (a cache entry may also be PROFILE_INVALID).
C9_BlockCapacity ==
  /\ \A p \in Slots :
       /\ PL[p].nblock <= BLOCK_MAX
       /\ \A i \in DOMAIN OpenFrames(p) : OpenFrames(p)[i] \in BlockIds
       /\ \A s \in Sites : \A i \in RecurseIdx :
            PS[s][p].block_id[i] \in BlockIds \cup {PROFILE_INVALID}
  /\ \A t \in Tids :
       th[t].pc \in {"cc_sample", "cc_update", "begin_rest"} =>
          th[t].block_id \in BlockIds

\* C10: return_pid gives a thread one slot, the same at every call, and
\* gives no slot to two threads; the slot is the one tids binds to the
\* thread.
C10_SlotInjectiveStable ==
  /\ \A t \in Tids : Cardinality(resolved[t]) <= 1
  /\ \A t \in Tids : \A u \in Tids :
       t # u => resolved[t] \cap resolved[u] = {}
  /\ \A t \in Tids : \A p \in resolved[t] : p \in Slots /\ tids[p] = t

\* two threads hold slots, and one that was not bound at the start has had
\* return_pid return twice while the main thread called it too
C10_Witness ==
  \E t \in Tids \ {MainTid} :
    /\ Len(hist[t]) = 2
    /\ th[t].pid # PROFILE_INVALID
    /\ resolved[t] # {}
    /\ Len(hist[MainTid]) >= 1
    /\ th[MainTid].pid # PROFILE_INVALID

\* C11: a return_pid call of a thread that tids does not hold, made when
\* every slot is bound, ends the process in the fatal status with the
\* diagnostic of the capacity; no step rebinds a bound slot, and return_pid
\* returns slots of 0 .. THREAD_MAX - 1 only.
C11_TooManyThreadsFatal ==
  [][/\ \A t \in Tids :
          (/\ th[t].pc = "rp_scan"
           /\ th'[t].pc # "rp_scan"
           /\ \A i \in Slots : tids[i] \notin {t, PROFILE_INVALID})
          => /\ status' = "fatal"
             /\ diag' = "result >= THREAD_MAX"
             /\ tids' = tids
     /\ \A i \in Slots : tids[i] # PROFILE_INVALID => tids'[i] = tids[i]
     /\ \A t \in Tids : resolved'[t] \subseteq Slots]_vars

\* the process ended by the call of a thread for which no slot was left
C11_Witness ==
  /\ status = "fatal"
  /\ diag = "result >= THREAD_MAX"
  /\ \A i \in Slots : tids[i] # PROFILE_INVALID
  /\ \E t \in Tids : /\ th[t].pc = "exited"
                      /\ resolved[t] = {}
                      /\ \A i \in Slots : tids[i] # t

\* C12: no thread reads in its enter or exit what another thread's enter or
\* exit wrote.  counter_correction reads counter_dummy after its own
\* COUNTER_POINTER has stored the thread's clock in it: what it reads is
\* that reading of its own clock.
C12_NoSharedHotPathState ==
  \A t \in Tids : th[t].pc = "cc_update" => counter_dummy = Now(t)

\* C13: a thread that has been given its slot never acquires profile_mutex
\* again: the mutex is owned only by a thread to which return_pid has not
\* returned yet.
C13_RegistryTouchedOnce ==
  \A t \in Tids : mutex = t => resolved[t] = {}

\* the overhead counter_correction has estimated when thread t is about to
\* fold in its last sample: round(mn) after that update_mean_sigma
EstimatedOverhead(t) ==
  round(update_mean_sigma(th[t].n, counter_dummy - th[t].counter_stamp, th[t].mn))

\* thread t has taken the last sample of a counter_correction
LastSampleTaken(t) == th[t].pc = "cc_update" /\ th[t].n = NCALIBRATION

\* C14: the value counter_correction returns is never negative; it is 0
\* whenever the raw interval is smaller than the estimated overhead, and
\* the raw interval less the estimate otherwise.
C14_ClampAtZero ==
  [][\A t \in Tids :
       (LastSampleTaken(t) /\ th'[t].pc # "cc_update")
       => /\ th'[t].correction >= 0
          /\ th[t].counter_delta < EstimatedOverhead(t)
               => th'[t].correction = 0
          /\ th[t].counter_delta >= EstimatedOverhead(t)
               => th'[t].correction = th[t].counter_delta - EstimatedOverhead(t)]_vars

\* a counter_correction whose raw interval is smaller than its estimate
C14_Witness ==
  \E t \in Tids :
    /\ LastSampleTaken(t)
    /\ EstimatedOverhead(t) > 0
    /\ th[t].counter_delta < EstimatedOverhead(t)

\* C15: under the idealized clock (consecutive reads differ by one constant,
\* instrumented code takes no time) every frame and every block has self
\* time exactly 0, whatever BEGIN_BLOCKs and END_BLOCKs the thread has
\* executed.
C15_EmptyBlocksZeroSelf ==
  \A p \in Slots :
    /\ \A i \in BlockIds : PL[p].block[i].block_time_self_total = 0
    /\ \A i \in StackIdx : PL[p].stack[i].stack_time_self = 0

\* a block with two empty children in a row, all closed, on a clock that
\* advances
C15_Witness ==
  \E p \in Slots : \E i \in BlockIds : \E j \in BlockIds :
    /\ clock[MainTid].every > 0
    /\ PL[p].nstack = 0
    /\ PL[p].block[i].block_calls = 1
    /\ PL[p].block[i].block_child[j].child_calls = 2
    /\ PL[p].block[j].block_calls = 2
    /\ PL[p].time_total > 0

\* slot p has a block named main or main-thread
HasBaseline(p) ==
  \E i \in BlockIds :
    /\ i < PL[p].nblock
    /\ PL[p].block[i].block_name \in {SiteName("main"), SiteName("main-thread")}

HasBlockNamed(p, name) ==
  \E i \in BlockIds : i < PL[p].nblock /\ PL[p].block[i].block_name = name

MissingBaseline == "block main or main-thread not found"

\* C17: a DUMP_PROFILE takes a block named main-thread as the baseline when
\* the thread has one, else a block named main, and with neither it ends
\* the process in the fatal status; no other step ends the process for a
\* missing baseline.
C17_BaselineSelection ==
  [][/\ \A t \in Tids :
          LET p == th[t].pid
          IN  (th[t].pc = "dump" /\ th'[t].pc # "dump")
              => IF HasBaseline(p)
                 THEN /\ status' = "running"
                      /\ report'[p].complete
                      /\ report'[p].baseline < PL[p].nblock
                      /\ PL[p].block[report'[p].baseline].block_name =
                           IF HasBlockNamed(p, SiteName("main-thread"))
                           THEN SiteName("main-thread") ELSE SiteName("main")
                 ELSE /\ status' = "fatal"
                      /\ diag' = MissingBaseline
                      /\ ~report'[p].complete
     /\ (diag' = MissingBaseline /\ diag # MissingBaseline)
          => \E t \in Tids : th[t].pc = "dump"]_vars

\* a report whose baseline is main-thread although a block main exists
C17_Witness ==
  \E p \in Slots :
    /\ report[p].written
    /\ report[p].complete
    /\ HasBlockNamed(p, SiteName("main"))
    /\ PL[p].block[report[p].baseline].block_name = SiteName("main-thread")

\* the rows of a report that carry a perc column: the three tables and the
\* per-block summaries
PercRows(r) ==
  {r.by_total[i] : i \in DOMAIN r.by_total}
    \cup {r.by_self[i] : i \in DOMAIN r.by_self}
    \cup {[time |-> r.by_recursive[i].time, perc |-> r.by_recursive[i].perc] :
            i \in DOMAIN r.by_recursive}
    \cup {r.summary[i] : i \in DOMAIN r.summary}
    \cup {[time |-> r.summary[i].self, perc |-> r.summary[i].percself] :
            i \in DOMAIN r.summary}
    \cup {[time |-> r.summary[i].children, perc |-> r.summary[i].percchildren] :
            i \in DOMAIN r.summary}

\* the cumulative total time the report prints for its baseline block
BaselineTotal(r) ==
  r.by_total[CHOOSE i \in DOMAIN r.by_total : r.by_total[i].id = r.baseline].time

\* quotient q = <<dividend, divisor>> has the value of time / total * 100
IsPercentOf(q, time, total) == q[1] * total = time * 100 * q[2]

\* C18 as stated: every percentage of a report is the reported time divided
\* by the cumulative total time of the baseline block.
C18_PercOfBaselineTotal ==
  \A p \in Slots :
    (report[p].written /\ report[p].complete)
      => \A row \in PercRows(report[p]) :
           IsPercentOf(row.perc, row.time, BaselineTotal(report[p]))

\* C18 amended: every percentage of the perc columns and of the summaries
\* is the reported time divided by the thread's total self time; only the
\* %main column of the third table divides by the cumulative total time of
\* the baseline block.
C18_PercOfTotalSelfTime ==
  \A p \in Slots :
    (report[p].written /\ report[p].complete)
      => /\ \A row \in PercRows(report[p]) :
              row.perc = <<row.time * 100, report[p].time_self_total>>
         /\ \A i \in DOMAIN report[p].by_recursive :
              report[p].by_recursive[i].percmain =
                <<report[p].by_recursive[i].time * 100,
                  BaselineTotal(report[p])>>

\* a verbose report with a nonzero time whose total self time differs from
\* the baseline block's total
C18_Witness ==
  \E p \in Slots :
    /\ report[p].written
    /\ report[p].complete
    /\ report[p].verbose = 1
    /\ report[p].time_self_total # BaselineTotal(report[p])
    /\ report[p].time_self_total > 0
    /\ BaselineTotal(report[p]) > 0
    /\ \E row \in PercRows(report[p]) : row.time > 0

RECURSIVE RowTimeSum(_)
\* the sum of the time column of a table
RowTimeSum(rows) ==
  IF rows = <<>> THEN 0 ELSE Head(rows).time + RowTimeSum(Tail(rows))

RECURSIVE SelfTimeSum(_, _)
\* the sum of the cumulative self times of the first n blocks
SelfTimeSum(blocks, n) ==
  IF n <= 0 THEN 0
  ELSE blocks[n - 1].block_time_self_total + SelfTimeSum(blocks, n - 1)

\* C19: the total self time a DUMP_PROFILE reports for a thread is the sum
\* of the cumulative self times of all blocks registered on that thread,
\* which is also the sum of the self time column of the second table.
C19_TotalSelfTimeIsSum ==
  [][\A t \in Tids :
       LET p == th[t].pid
       IN  (th[t].pc = "dump" /\ th'[t].pc # "dump" /\ report'[p].complete)
           => /\ report'[p].time_self_total =
                   SelfTimeSum(PL[p].block, PL[p].nblock)
              /\ report'[p].time_self_total =
                   SelfTimeSum(PL'[p].block, PL'[p].nblock)
              /\ report'[p].time_self_total = RowTimeSum(report'[p].by_self)]_vars

\* a report over two blocks that both have self time
C19_Witness ==
  \E p \in Slots :
    /\ report[p].written
    /\ report[p].complete
    /\ \E i, j \in DOMAIN report[p].by_self :
         /\ i # j
         /\ report[p].by_self[i].time > 0
         /\ report[p].by_self[j].time > 0

\* the vowels and underscores of a name
Removable(name) == {i \in 1 .. Len(name) : IsRemovable(name[i])}

\* name without its k rightmost vowels and underscores
DropRightmost(name, k) ==
  LET kept == {i \in 1 .. Len(name) :
                 \/ ~IsRemovable(name[i])
                 \/ Cardinality({j \in Removable(name) : j >= i}) > k}
  IN  [n \in 1 .. Cardinality(kept) |->
         name[CHOOSE i \in kept : Cardinality({j \in kept : j <= i}) = n]]

\* thread t is about to run the BEGIN_BLOCK of a call site whose name has
\* NAME_MAX characters or more, and new_block will call mangle
ManglesLongName(t) ==
  LET p == th[t].pid
      s == th[t].site
      inv == NextInvocation(PS[s][p])
  IN  /\ status = "running"
      /\ th[t].pc = "begin_entry"
      /\ th'[t].pc # "begin_entry"
      /\ Len(SiteName(s)) >= NAME_MAX
      /\ inv \in RecurseIdx
      /\ PS[s][p].block_invocation = 0 \/ PS[s][p].block_id[inv] = PROFILE_INVALID
      /\ PL[p].nblock < BLOCK_MAX

\* C20 as stated: for every block name of NAME_MAX characters or more,
\* mangling completes and the block is stored under a name of fewer than
\* NAME_MAX characters.
C20_MangleAlwaysFits ==
  [][\A t \in Tids :
       LET p == th[t].pid
       IN  ManglesLongName(t)
           => /\ status' = "running"
              /\ PL'[p].nblock = PL[p].nblock + 1
              /\ Len(PL'[p].block[PL[p].nblock].block_name) < NAME_MAX]_vars

\* C20 amended: a block name of NAME_MAX characters or more, fewer than
\* MANGLE_MAX, with enough vowels and underscores to get below NAME_MAX is
\* stored without its rightmost vowels and underscores, NAME_MAX - 1
\* characters long; for any other name of NAME_MAX characters or more the
\* process ends in the fatal status and no block is stored; no stored name
\* has NAME_MAX characters or more.
C20_MangleFitsOrFatal ==
  [][/\ \A t \in Tids :
          LET p == th[t].pid
              name == SiteName(th[t].site)
              k == Len(name) - NAME_MAX + 1
          IN  ManglesLongName(t)
              => IF Len(name) < MANGLE_MAX /\ Cardinality(Removable(name)) >= k
                 THEN /\ status' = "running"
                      /\ PL'[p].nblock = PL[p].nblock + 1
                      /\ PL'[p].block[PL[p].nblock].block_name =
                           DropRightmost(name, k)
                      /\ Len(PL'[p].block[PL[p].nblock].block_name) = NAME_MAX - 1
                 ELSE /\ status' = "fatal"
                      /\ diag' = IF Len(name) >= MANGLE_MAX
                                 THEN "strlen(source) >= MANGLE_MAX" ELSE "n < 0"
                      /\ PL' = PL
     /\ \A p \in Slots : \A i \in BlockIds :
          i < PL'[p].nblock => Len(PL'[p].block[i].block_name) < NAME_MAX]_vars

\* a block stored under a name that lost an underscore and a vowel
C20_Witness ==
  \E p \in Slots : \E i \in BlockIds :
    /\ i < PL[p].nblock
    /\ PL[p].block[i].block_invocation_pointer = "u"
    /\ Len(PL[p].block[i].block_name) = NAME_MAX - 1
    /\ PL[p].block[i].block_name = DropRightmost(SiteName("u"), 3)

\* thread t's BEGIN_BLOCK registers a new block in this step
RegistersBlock(t) ==
  /\ th[t].pc = "begin_entry"
  /\ PL'[th[t].pid].nblock = PL[th[t].pid].nblock + 1

\* C21: a name that fits is stored unchanged; mangling a stored name again
\* gives the stored name; and the stored name depends on the call site's
\* name alone, so all blocks of one call site carry the same name.
C21_MangleIdempotent ==
  [][\A t \in Tids :
       LET p == th[t].pid
           name == SiteName(th[t].site)
           stored == PL'[p].block[PL[p].nblock].block_name
       IN  RegistersBlock(t)
           => /\ Len(name) < NAME_MAX => stored = name
              /\ mangle(stored) = [bug |-> "", name |-> stored]
              /\ \A i \in BlockIds :
                   (/\ i < PL[p].nblock
                    /\ PL[p].block[i].block_invocation_pointer = th[t].site)
                   => PL[p].block[i].block_name = stored]_vars

\* a thread with a block whose name was stored unchanged and two blocks of
\* one call site whose name was shortened
C21_Witness ==
  \E p \in Slots : \E i, j, k \in BlockIds :
    /\ i < PL[p].nblock /\ j < PL[p].nblock /\ k < PL[p].nblock
    /\ PL[p].block[i].block_name = SiteName("main")
    /\ j # k
    /\ PL[p].block[j].block_invocation_pointer = "u"
    /\ PL[p].block[k].block_invocation_pointer = "u"
    /\ PL[p].block[j].block_name # SiteName("u")

\* the blocks of slot p that carry the given name
BlocksNamed(p, name) ==
  {i \in BlockIds : i < PL[p].nblock /\ PL[p].block[i].block_name = name}

RECURSIVE SumOver(_, _)
\* the sum of f over the finite set S
SumOver(f, S) ==
  IF S = {} THEN 0
  ELSE LET x == CHOOSE x \in S : TRUE IN f[x] + SumOver(f, S \ {x})

\* the rows of the table of recursive totals agree with the blocks of p
RollupRowsSum(p, rows) ==
  \A n \in DOMAIN rows :
    /\ rows[n].time =
         SumOver([i \in BlockIds |-> PL[p].block[i].block_time_self_total],
                 BlocksNamed(p, rows[n].name))
    /\ rows[n].calls =
         SumOver([i \in BlockIds |-> PL[p].block[i].block_calls],
                 BlocksNamed(p, rows[n].name))

\* C22: in a report written in full, the self time and the call count of
\* every row of the table of recursive totals are the sums of self time and
\* call count over all blocks of the thread that carry the row's name.
C22_RollupSumsAllDepths ==
  [][\A t \in Tids :
       LET p == th[t].pid
       IN  (th[t].pc = "dump" /\ th'[t].pc # "dump" /\ report'[p].complete)
           => RollupRowsSum(p, report'[p].by_recursive)]_vars

\* rows with equal times stand in ascending order of block id
StableOrder(rows) ==
  \A n, m \in DOMAIN rows :
    (n < m /\ rows[n].time = rows[m].time) => rows[n].id < rows[m].id

\* C23: in each of the three tables of a report, two blocks with equal sort
\* keys appear in the order of their registration.
C23_StableSort ==
  \A p \in Slots :
    (report[p].written /\ report[p].complete)
      => /\ StableOrder(report[p].by_total)
         /\ StableOrder(report[p].by_self)
         /\ StableOrder(report[p].by_recursive)

\* the file names init_profile removes
RemovedByInit ==
  {<<"profile.txt">>} \cup {<<"profile-", i, ".txt">> : i \in 0 .. (THREAD_MAX - 1)}

\* C24: the thread in slot 0 writes profile.txt and the thread in any other
\* slot a file with a suffix of its own, two slots never write the same
\* file name, and every file name written is one that init_profile removes.
C24_ReportFiles ==
  \A p \in Slots :
    report[p].written
      => /\ (p = 0) = (report[p].file = <<"profile.txt">>)
         /\ report[p].file \in RemovedByInit
         /\ \A q \in Slots :
              (q # p /\ report[q].written) => report[q].file # report[p].file

\* two threads have written their reports
C24_Witness ==
  \E p, q \in Slots : p # q /\ report[p].written /\ report[q].written

RECURSIVE OpenSites(_)
\* the call sites of the blocks left open by the macro calls h, bottom first
OpenSites(h) ==
  IF h = <<>> THEN <<>>
  ELSE LET st == OpenSites(SubSeq(h, 1, Len(h) - 1))
           op == h[Len(h)]
       IN  IF op[1] = "BEGIN_BLOCK" THEN Append(st, op[2])
           ELSE IF op[1] = "END_BLOCK" /\ st # <<>>
                THEN SubSeq(st, 1, Len(st) - 1)
                ELSE st

\* the recursion depth of call site s after the macro calls h
DepthOf(h, s) ==
  Cardinality({i \in DOMAIN OpenSites(h) : OpenSites(h)[i] = s})

\* call site s has been open d times at once during the macro calls h
DepthReached(h, s, d) ==
  \E k \in 0 .. Len(h) : DepthOf(SubSeq(h, 1, k), s) >= d

\* the blocks of slot p that call site s has registered
BlocksOfSite(p, s) ==
  {i \in BlockIds : i < PL[p].nblock /\ PL[p].block[i].block_invocation_pointer = s}

\* the BEGIN_BLOCK of thread t passes from the macro into begin_block
EntersBlock(t) ==
  /\ th[t].pc = "begin_entry"
  /\ th'[t].pc \notin {"begin_entry", "exited"}

\* what C25 says of the BEGIN_BLOCK of thread t at depth d of its call site
BlockForDepth(t, d) ==
  LET p == th[t].pid
      s == th[t].site
      before == SubSeq(hist[t], 1, Len(hist[t]) - 1)
  IN  IF DepthReached(before, s, d)
      THEN /\ PL'[p].nblock = PL[p].nblock
           /\ th'[t].block_id \in BlocksOfSite(p, s)
           /\ Cardinality({i \in BlocksOfSite(p, s) : i <= th'[t].block_id}) = d
      ELSE /\ PL'[p].nblock = PL[p].nblock + 1
           /\ th'[t].block_id = PL[p].nblock
           /\ PL'[p].block[PL[p].nblock].block_invocation_pointer = s
           /\ Cardinality(BlocksOfSite(p, s)) = d - 1

\* C25: a BEGIN_BLOCK at a depth its call site has reached before on the
\* thread leaves the number of blocks unchanged and enters the block made
\* for that depth; a BEGIN_BLOCK at a new depth makes exactly one new block
\* and enters it.
C25_BlockPerSiteAndDepth ==
  [][\A t \in Tids :
       EntersBlock(t)
         => BlockForDepth(t, DepthOf(hist[t], th[t].site))]_vars

\* the END_BLOCK of thread t completes in this step
ExitsBlock(t) ==
  /\ th[t].pc = "end_rest"
  /\ th'[t].pc = "user"

\* the parent and child entries of slot p other than those of the pair
\* (child block c, parent block q) are left as they are
OtherEdgesUnchanged(p, c, q) ==
  \A i, j \in BlockIds :
    /\ <<i, j>> # <<c, q>>
         => PL'[p].block[i].block_parent[j] = PL[p].block[i].block_parent[j]
    /\ <<i, j>> # <<q, c>>
         => PL'[p].block[i].block_child[j] = PL[p].block[i].block_child[j]

\* C26: an END_BLOCK that leaves the stack non-empty adds one to the closed
\* block's parent count for the block of the new top frame and one to that
\* block's child count for the closed block, adds the closed frame's total
\* time to that child entry and changes no other entry; an END_BLOCK that
\* empties the stack changes no parent or child entry.
C26_EdgesOnExit ==
  [][\A t \in Tids :
       LET p == th[t].pid
           n == PL[p].nstack
           c == PL[p].stack[n].stack_id
           q == PL[p].stack[n - 1].stack_id
       IN  ExitsBlock(t)
           => IF n > 0
              THEN /\ PL'[p].block[c].block_parent[q] =
                        [parent_active |-> TRUE,
                         parent_calls |->
                           PL[p].block[c].block_parent[q].parent_calls + 1]
                   /\ PL'[p].block[q].block_child[c] =
                        [child_active |-> TRUE,
                         child_calls |->
                           PL[p].block[q].block_child[c].child_calls + 1,
                         child_time_total |->
                           PL[p].block[q].block_child[c].child_time_total
                             + PL'[p].stack[n].stack_time_total]
                   /\ PL'[p].block[c].block_time_total =
                        PL[p].block[c].block_time_total
                          + PL'[p].stack[n].stack_time_total
                   /\ OtherEdgesUnchanged(p, c, q)
              ELSE \A i \in BlockIds :
                     /\ PL'[p].block[i].block_parent = PL[p].block[i].block_parent
                     /\ PL'[p].block[i].block_child = PL[p].block[i].block_child]_vars

\* a block has called another, with time spent in it, and the stack is
\* empty again
C26_Witness ==
  \E p \in Slots : \E i, j \in BlockIds :
    /\ PL[p].nstack = 0
    /\ PL[p].nblock > 1
    /\ PL[p].block[i].block_child[j].child_calls = 1
    /\ PL[p].block[i].block_child[j].child_time_total > 0
    /\ PL[p].block[j].block_parent[i].parent_calls = 1
    /\ PL[p].block[i].block_calls = 1

\* thread t takes a step inside begin_block or the macro code around it
InBegin(t) ==
  /\ th[t].op = "BEGIN_BLOCK"
  /\ th[t].pc \in {"begin_entry", "cc_sample", "cc_update", "begin_rest"}
  /\ th'[t] # th[t]

\* call count, times and edge tables of the blocks slot p has are unchanged
BlocksUnchanged(p) ==
  \A i \in BlockIds :
    i < PL[p].nblock
      => /\ PL'[p].block[i].block_calls = PL[p].block[i].block_calls
         /\ PL'[p].block[i].block_time_self_total =
              PL[p].block[i].block_time_self_total
         /\ PL'[p].block[i].block_time_total = PL[p].block[i].block_time_total
         /\ PL'[p].block[i].block_parent = PL[p].block[i].block_parent
         /\ PL'[p].block[i].block_child = PL[p].block[i].block_child

\* C27: a BEGIN_BLOCK that finds frames on the stack measures the time from
\* the top frame's resume point to its own first clock read, and adds the
\* corrected value to the self time of that frame; it changes no other
\* accumulator of an open frame and no call count, self time, total time
\* or edge table of an existing block.
C27_EnterSuspendsTopOnly ==
  [][\A t \in Tids :
       LET p == th[t].pid
           n == PL[p].nstack
       IN  InBegin(t)
           => /\ BlocksUnchanged(p)
              /\ \A k \in StackIdx :
                   k < n
                   => /\ PL'[p].stack[k].stack_time_total =
                           PL[p].stack[k].stack_time_total
                      /\ PL'[p].stack[k].stack_time_self =
                           PL[p].stack[k].stack_time_self
                             + (IF k = n - 1 /\ th[t].pc = "begin_rest"
                                THEN th[t].correction ELSE 0)
              /\ (th[t].pc = "begin_entry" /\ n > 0 /\ status' = "running")
                   => /\ th'[t].pc = "cc_sample"
                      /\ th'[t].counter_delta =
                           PG'[p].counter_stamp
                             - PL[p].stack[n - 1].stack_count_begin
              /\ (th[t].pc = "begin_entry" /\ n = 0 /\ status' = "running")
                   => th'[t].pc = "begin_rest" /\ th'[t].correction = 0]_vars

\* a BEGIN_BLOCK has added time to the frame it suspended
C27_Witness ==
  \E t \in Tids : \E p \in Slots :
    /\ tids[p] = t
    /\ th[t].pc = "user"
    /\ hist[t] # <<>>
    /\ hist[t][Len(hist[t])][1] = "BEGIN_BLOCK"
    /\ PL[p].nstack >= 2
    /\ PL[p].stack[PL[p].nstack - 2].stack_time_self > 0

\* C28: the total run time of a thread changes only in an END_BLOCK that
\* empties the stack, where it grows by the time from the window start to
\* the clock read of that END_BLOCK; the window start changes only in a
\* BEGIN_BLOCK that finds the stack empty.
C28_RunTimeWindow ==
  [][\A p \in Slots :
       /\ PL'[p].time_total # PL[p].time_total
            => \E t \in Tids :
                 th[t].pid = p /\ ExitsBlock(t) /\ PL[p].nstack = 0
       /\ PL'[p].counter_overhead_begin # PL[p].counter_overhead_begin
            => \E t \in Tids :
                 /\ th[t].pid = p
                 /\ th[t].pc = "begin_entry"
                 /\ PL[p].nstack = 0
                 /\ PL'[p].counter_overhead_begin \in Now(t) .. clock'[t].now
       /\ \A t \in Tids :
            (th[t].pid = p /\ ExitsBlock(t) /\ PL[p].nstack = 0)
            => /\ PL'[p].counter_overhead_end \in Now(t) .. clock'[t].now
               /\ PL'[p].time_total =
                    PL[p].time_total
                      + (PL'[p].counter_overhead_end
                           - PL[p].counter_overhead_begin)
               /\ PL'[p].time_total >= PL[p].time_total]_vars

\* a window with a nested block has closed and took time
C28_Witness ==
  \E p \in Slots :
    /\ PL[p].nstack = 0
    /\ PL[p].nblock >= 2
    /\ PL[p].block[1].block_calls > 0
    /\ PL[p].time_total > 0
    /\ PL[p].counter_overhead_begin > 0

\* the thread of slot p is between two macro executions, or has exited
BetweenMacros(p) ==
  \A t \in Tids : tids[p] = t => th[t].pc \in {"user", "exited"}

\* the sum of the cumulative times of the child table of block b
ChildTimeSum(b) ==
  SumOver([j \in BlockIds |-> b.block_child[j].child_time_total], BlockIds)

\* C29: while a thread's stack is empty between two macro executions,
\* every block of the thread has cumulative total time = cumulative self
\* time + the sum of the cumulative times of its child table.
C29_TotalIsSelfPlusChildren ==
  \A p \in Slots :
    (PL[p].nstack = 0 /\ BetweenMacros(p))
      => \A i \in BlockIds :
           i < PL[p].nblock
             => PL[p].block[i].block_time_total =
                  PL[p].block[i].block_time_self_total
                    + ChildTimeSum(PL[p].block[i])

\* the stack is empty and a block has both self time and time in a child
C29_Witness ==
  \E p \in Slots : \E i \in BlockIds :
    /\ PL[p].nstack = 0
    /\ BetweenMacros(p)
    /\ i < PL[p].nblock
    /\ PL[p].block[i].block_time_self_total > 0
    /\ ChildTimeSum(PL[p].block[i]) > 0

\* the stack positions of slot p, bottom first, whose frame refers to a
\* block of call site s
FramesOfSite(p, s) ==
  {k \in StackIdx : k < PL[p].nstack /\ PL[p].stack[k].stack_id \in BlocksOfSite(p, s)}

\* C30: between two macro executions of a thread, a call site the thread
\* has entered before has a recursion counter of 1 plus the number of its
\* open frames, these are the frames the thread's BEGIN_BLOCKs of that site
\* have left open, and from bottom to top they refer to the site's blocks
\* of depth 1, 2, 3 and so on.
C30_CounterTracksOpenFrames ==
  \A t \in Tids : \A p \in Slots : \A s \in Sites :
    (tids[p] = t /\ th[t].pc = "user" /\ DepthReached(hist[t], s, 1))
      => /\ PS[s][p].block_invocation = 1 + Cardinality(FramesOfSite(p, s))
         /\ Cardinality(FramesOfSite(p, s)) = DepthOf(hist[t], s)
         /\ \A k \in FramesOfSite(p, s) :
              Cardinality({i \in BlocksOfSite(p, s) : i <= PL[p].stack[k].stack_id})
                = Cardinality({j \in FramesOfSite(p, s) : j <= k})

\* C31: for all blocks q and c of a thread, c's parent count for q equals
\* q's child count for c, and a parent or child entry is marked active
\* exactly when its count is greater than zero.
C31_EdgeTablesConsistent ==
  \A p \in Slots : \A q, c \in BlockIds :
    (q < PL[p].nblock /\ c < PL[p].nblock)
      => /\ PL[p].block[c].block_parent[q].parent_calls =
              PL[p].block[q].block_child[c].child_calls
         /\ PL[p].block[c].block_parent[q].parent_active =
              (PL[p].block[c].block_parent[q].parent_calls > 0)
         /\ PL[p].block[q].block_child[c].child_active =
              (PL[p].block[q].block_child[c].child_calls > 0)

\* a block was called twice from the same parent
C31_Witness ==
  \E p \in Slots : \E q, c \in BlockIds :
    /\ q < PL[p].nblock /\ c < PL[p].nblock
    /\ PL[p].block[c].block_parent[q].parent_calls = 2
    /\ PL[p].block[q].block_child[c].child_active

\* the macro calls of thread t that have run to their end
Completed(t) ==
  IF th[t].pc = "user" THEN hist[t] ELSE SubSeq(hist[t], 1, Len(hist[t]) - 1)

\* the positions in h of the END_BLOCKs that closed a frame of call site s
\* at depth d
ExitsOf(h, s, d) ==
  {k \in DOMAIN h :
     LET before == SubSeq(h, 1, k - 1)
         open == OpenSites(before)
     IN  /\ h[k][1] = "END_BLOCK"
         /\ open # <<>>
         /\ open[Len(open)] = s
         /\ DepthOf(before, s) = d}

\* those of them that emptied the stack
EmptyingExitsOf(h, s, d) ==
  {k \in ExitsOf(h, s, d) : Len(OpenSites(SubSeq(h, 1, k - 1))) = 1}

\* the depth of block i of slot p within its call site
DepthOfBlock(p, i) ==
  Cardinality({j \in BlocksOfSite(p, PL[p].block[i].block_invocation_pointer) :
                 j <= i})

\* C32: the call count of a block is the number of END_BLOCKs that closed
\* one of its frames, and it is the sum of the block's parent counts plus
\* the number of those END_BLOCKs that emptied the stack.
C32_CallCount ==
  \A t \in Tids : \A p \in Slots : \A i \in BlockIds :
    (tids[p] = t /\ i < PL[p].nblock)
      => LET s == PL[p].block[i].block_invocation_pointer
             d == DepthOfBlock(p, i)
         IN  /\ PL[p].block[i].block_calls =
                  Cardinality(ExitsOf(Completed(t), s, d))
             /\ PL[p].block[i].block_calls =
                  SumOver([q \in BlockIds |->
                             PL[p].block[i].block_parent[q].parent_calls],
                          BlockIds)
                    + Cardinality(EmptyingExitsOf(Completed(t), s, d))

\* a block closed once with the stack left empty and once below a parent,
\* while a frame of another block is open
C32_Witness ==
  \E p \in Slots : \E i \in BlockIds :
    /\ i < PL[p].nblock
    /\ PL[p].nstack > 0
    /\ PL[p].block[i].block_calls = 2
    /\ \E q \in BlockIds : PL[p].block[i].block_parent[q].parent_calls = 1

\* thread t has completed a BEGIN_BLOCK
HasEntered(t) ==
  \E k \in DOMAIN Completed(t) : Completed(t)[k][1] = "BEGIN_BLOCK"

\* between two macro executions of a thread that has entered a block,
\* counter_pointer is the address of stack_count_begin of the top frame, or
\* of counter_dummy when the stack is empty
PointerAtTop ==
  \A t \in Tids : \A p \in Slots :
    (tids[p] = t /\ th[t].pc = "user" /\ HasEntered(t))
      => PG[p].counter_pointer =
           IF PL[p].nstack > 0 THEN <<"stack", p, PL[p].nstack - 1>>
           ELSE <<"dummy">>

\* C33: when BEGIN_BLOCK or END_BLOCK returns, counter_pointer designates
\* stack_count_begin of the frame on top of the stack, or counter_dummy
\* when the stack is empty, the macro's closing clock read has been stored
\* there, and counter_pointer stays so until the thread's next macro.
C33_CounterPointerAtTop ==
  [][/\ PointerAtTop'
     /\ \A t \in Tids :
          LET p == th[t].pid
              n == PL'[p].nstack
          IN  (th[t].pc \in {"begin_rest", "end_rest"} /\ th'[t].pc = "user")
              => IF n > 0
                 THEN /\ PG'[p].counter_pointer = <<"stack", p, n - 1>>
                      /\ PL'[p].stack[n - 1].stack_count_begin = clock'[t].now
                 ELSE /\ PG'[p].counter_pointer = <<"dummy">>
                      /\ counter_dummy' = clock'[t].now]_vars

\* an END_BLOCK has returned to an open frame and re-stamped it
C33_Witness ==
  \E t \in Tids : \E p \in Slots :
    /\ tids[p] = t
    /\ th[t].pc = "user"
    /\ hist[t] # <<>>
    /\ hist[t][Len(hist[t])][1] = "END_BLOCK"
    /\ PL[p].nstack = 1
    /\ PG[p].counter_pointer = <<"stack", p, 0>>
    /\ PL[p].stack[0].stack_count_begin > 0

\* C34: with several threads, each on its own monotonic clock, the value
\* counter_correction returns, which the thread adds to a frame's self
\* time, never exceeds the raw interval the thread passed in.
C34_CorrectionOnlySubtracts ==
  [][\A t \in Tids :
       (LastSampleTaken(t) /\ th'[t].pc # "cc_update")
         => th'[t].correction <= th[t].counter_delta]_vars

Dumps(t) == th[t].pc = "dump" /\ th'[t].pc = "user"

\* C36: DUMP_PROFILE only reads the profiling data: name, block_invocation,
\* call count, self time, total time and parent/child tables of every
\* block, and the stack, are after the dump what they were before it.
C36_DumpReadOnly ==
  [][\A t \in Tids :
       Dumps(t) =>
         \E p \in {th[t].pid} :
           /\ BlocksUnchanged(p)
           /\ \A i \in BlockIds :
                /\ PL'[p].block[i].block_name = PL[p].block[i].block_name
                /\ PL'[p].block[i].block_invocation =
                     PL[p].block[i].block_invocation
           /\ PL'[p].nstack = PL[p].nstack
           /\ PL'[p].stack = PL[p].stack]_vars

\* C36, second half: a DUMP_PROFILE that follows a complete report with no
\* BEGIN_BLOCK or END_BLOCK in between reports every block at the depth
\* the earlier report showed.
C36_SameDepthsTwice ==
  [][\A t \in Tids :
       Dumps(t) =>
         \E p \in {th[t].pid} :
           (/\ report[p].written /\ report[p].complete
            /\ report'[p].complete
            /\ Len(hist[t]) >= 2
            /\ hist[t][Len(hist[t]) - 1][1] = "DUMP_PROFILE")
             => \A i \in 1 .. report[p].nblock :
                  \A j \in 1 .. report'[p].nblock :
                    report[p].by_total[i].id = report'[p].by_total[j].id
                      => report[p].by_total[i].invocation =
                           report'[p].by_total[j].invocation]_vars

RECURSIVE MangleAfter(_, _)
\* m after j iterations of the removal loop "while (n >= NAME_MAX)"
MangleAfter(m, j) ==
  IF j = 0 THEN m ELSE MangleAfter(RemoveAt(m, ScanFromRight(m)), j - 1)

RECURSIVE MangleSteps(_)
\* the number of iterations the removal loop completes on m: it stops when
\* the name fits or when PROFILE_BUG(n < 0) finds nothing left to remove
MangleSteps(m) ==
  IF Len(m) < NAME_MAX \/ ScanFromRight(m) < 0 THEN 0
  ELSE 1 + MangleSteps(RemoveAt(m, ScanFromRight(m)))

\* after is before without one character, which is a vowel or an underscore
\* with no vowel and no underscore to its right
DeletesRightmost(before, after) ==
  /\ Len(after) = Len(before) - 1
  /\ \E pos \in 1 .. Len(before) :
       /\ IsRemovable(before[pos])
       /\ \A q \in pos + 1 .. Len(before) : ~IsRemovable(before[q])
       /\ \A i \in 1 .. pos - 1 : after[i] = before[i]
       /\ \A i \in pos .. Len(after) : after[i] = before[i + 1]

NonIncreasing(rows) ==
  \A n, m \in DOMAIN rows : n < m => rows[n].time >= rows[m].time

\* rows list every block of ids exactly once
ListsOnce(rows, ids) ==
  /\ \A i \in ids : Cardinality({n \in DOMAIN rows : rows[n].id = i}) = 1
  /\ \A n \in DOMAIN rows : rows[n].id \in ids

\* C38: in a complete report the first table lists every registered block
\* exactly once in non-increasing order of block_time_total, the second
\* every registered block exactly once in non-increasing order of
\* block_time_self_total, and the third the blocks of recursion depth 1 in
\* non-increasing order of block_time_recursive_total.
C38_TablesOrdered ==
  [][\A t \in Tids :
       Dumps(t) =>
         \E p \in {th[t].pid} :
           report'[p].complete =>
             \E ids \in {{i \in BlockIds : i < PL[p].nblock}} :
               /\ ListsOnce(report'[p].by_total, ids)
               /\ NonIncreasing(report'[p].by_total)
               /\ \A n \in DOMAIN report'[p].by_total :
                    report'[p].by_total[n].time =
                      PL[p].block[report'[p].by_total[n].id].block_time_total
               /\ ListsOnce(report'[p].by_self, ids)
               /\ NonIncreasing(report'[p].by_self)
               /\ \A n \in DOMAIN report'[p].by_self :
                    report'[p].by_self[n].time =
                      PL[p].block[report'[p].by_self[n].id].block_time_self_total
               /\ ListsOnce(report'[p].by_recursive,
                            {i \in ids : DepthOfBlock(p, i) = 1})
               /\ NonIncreasing(report'[p].by_recursive)]_vars

\* the largest element of a sequence of numbers, 0 for the empty sequence
MaxOf(seq) ==
  IF seq = << >> THEN 0
  ELSE CHOOSE x \in {seq[i] : i \in DOMAIN seq} :
         \A i \in DOMAIN seq : seq[i] <= x

\* the samples of the second pass that were larger than the threshold
Outliers == SelectSeq(cal.samples, LAMBDA x : x > Threshold(cal))

\* C39: when init_profile has returned, ncounter_largest is the number of
\* samples of the second pass that were larger than counter_mean +
\* 3 * counter_sigma, and counter_largest is the largest of those samples.
C39_LargestIsMaximum ==
  cal.pc = "done"
    => /\ Len(cal.samples) = NCALL
       /\ cal.ncounter_largest = Len(Outliers)
       /\ cal.counter_largest = MaxOf(Outliers)

\* the count alone
C39_CountsOutliers ==
  cal.pc = "done"
    => /\ Len(cal.samples) = NCALL
       /\ cal.ncounter_largest = Len(Outliers)

\* thread t is inside return_pid
InResolve(t) == th[t].pc \in {"rp_lock", "rp_scan", "rp_store", "rp_unlock"}

====
